---- MODULE Spec2Model ----
(***************************************************************************)
(* Signal-to-execution pipeline of the trading bot:                        *)
(*   StrategyRunner.run            src/bot/strategies/runner.py            *)
(*   OrderManager                  src/bot/execution/order_manager.py      *)
(*   RiskManager.evaluate_entry    src/bot/risk/manager.py                 *)
(*   SimulatedExecutionEngine      src/bot/execution/simulated.py          *)
(*   LiveCoinbaseExecutionEngine   src/bot/execution/live_coinbase.py      *)
(*   DB                            src/bot/persistence/db.py               *)
(*                                                                         *)
(* Numbers the code holds as float / Decimal are exact rationals here      *)
(* ([n |-> numerator, d |-> denominator], d > 0, in lowest terms); the     *)
(* record with d = 0 stands for Python's None.  Row ids, exchange order    *)
(* ids and timestamps are positive integers, 0 stands for None.            *)
(***************************************************************************)
EXTENDS Integers, Sequences, FiniteSets, TLC

\* ------------------------------------------------------------------------
\* Bounds of the model
\* ------------------------------------------------------------------------
\* candles handed to StrategyRunner.run with the simulated (paper) backend
MaxBars == 3
\* candles handed to StrategyRunner.run with a non-simulated backend
MaxLiveBars == 2
\* configured max_trades_per_day values explored: 1..MaxTradesCap
MaxTradesCap == 2
\* the poll loop's iteration counter wraps at PollWrap (it only makes each
\* iteration of the loop a visible step)
PollWrap == 2
\* SimulatedExecutionEngine on its own: number of submits explored
MaxSimOrders == 2
\* SimulatedExecutionEngine on its own: polls of one order explored
MaxSimPolls == 2

\* ------------------------------------------------------------------------
\* Exact rational arithmetic
\* ------------------------------------------------------------------------
RECURSIVE GCD(_, _)
GCD(a, b) == IF b = 0 THEN a ELSE GCD(b, a % b)

Abs(i) == IF i < 0 THEN -i ELSE i

Rat(n, d) ==
    LET s == IF d < 0 THEN -1 ELSE 1
        g == GCD(Abs(n), Abs(d))
    IN  [n |-> (s * n) \div g, d |-> (s * d) \div g]

R(i) == [n |-> i, d |-> 1]
NoneR == [n |-> 0, d |-> 0]
IsNone(x) == x.d = 0

RAdd(x, y) == Rat(x.n * y.d + y.n * x.d, x.d * y.d)
RSub(x, y) == Rat(x.n * y.d - y.n * x.d, x.d * y.d)
RMul(x, y) == Rat(x.n * y.n, x.d * y.d)
RDiv(x, y) == Rat(x.n * y.d, x.d * y.n)
RAbs(x) == [n |-> Abs(x.n), d |-> x.d]
RNeg(x) == [n |-> -x.n, d |-> x.d]
RLe(x, y) == x.n * y.d <= y.n * x.d
RLt(x, y) == x.n * y.d < y.n * x.d
RMax(x, y) == IF RLe(x, y) THEN y ELSE x
RMin(x, y) == IF RLe(x, y) THEN x ELSE y
\* Python truthiness of an optional number: None and 0 are falsy
Truthy(x) == ~IsNone(x) /\ x.n # 0

Last(s) == s[Len(s)]

\* ------------------------------------------------------------------------
\* Inputs
\* ------------------------------------------------------------------------
\* closes of the candles fed to the runner; a candle has high = close + 1
\* and low = close - 1
ClosePrices == {97, 100, 106}
MkCandle(c) == [close |-> R(c), high |-> R(c + 1), low |-> R(c - 1)]

\* SignalType of src/bot/strategies/signals.py
SignalTypes == {"enter", "exit", "hold"}
\* What strategy.generate_signal hands to the runner: None, or a signal whose
\* signal_type either is an enum-like object (has_value: it has a .value
\* attribute) or a plain str such as the members of SignalType.
StrategyOutputs ==
    {[type |-> "None", has_value |-> TRUE]}
        \cup [type : SignalTypes, has_value : BOOLEAN]

\* strategy_params as read by OrderManager and RiskManager
ParamChoices ==
    [max_slippage_pct : {R(1)},
     stop_loss_pct : {R(2)},
     take_profit_pct : {R(4)},
     max_risk_pct : {Rat(2, 100)},
     max_daily_loss_pct : {Rat(3, 100)},
     max_trades_per_day : 1..MaxTradesCap]

\* Portfolio row and the latest DailySnapshot row (nothing in the pipeline
\* writes either)
PaperPortfolio == [present |-> TRUE, starting_equity |-> R(10000)]
\* a portfolio added with starting_equity = 0
EmptyPortfolio == [present |-> TRUE, starting_equity |-> R(0)]
PortfolioChoices == {PaperPortfolio, EmptyPortfolio}
NoSnapshot == [present |-> FALSE, ending_equity |-> NoneR, realized_pnl |-> NoneR]
LossSnapshot == [present |-> TRUE, ending_equity |-> R(10000), realized_pnl |-> R(-310)]
SnapshotChoices == {NoSnapshot, LossSnapshot}

\* ------------------------------------------------------------------------
\* RiskManager.evaluate_entry
\* ------------------------------------------------------------------------
\* faulty variant of VetoResult: the veto reason is left out
VetoHasNoReason(reason) ==
    [allow |-> FALSE, size |-> NoneR, warnings |-> <<>>, veto_reason |-> "None"]

VetoResult(reason) ==
    [allow |-> FALSE, size |-> NoneR, warnings |-> <<>>, veto_reason |-> reason]

AllowResult(size, warnings) ==
    [allow |-> TRUE, size |-> size, warnings |-> warnings, veto_reason |-> "None"]

\* state.last_snapshot.ending_equity if state.last_snapshot
\* else portfolio.starting_equity
EquityBasis(state) ==
    IF state.last_snapshot.present
    THEN state.last_snapshot.ending_equity
    ELSE state.portfolio.starting_equity

DailyLossExceeded(state, equity, p) ==
    /\ state.last_snapshot.present
    /\ ~IsNone(state.last_snapshot.realized_pnl)
    /\ RLt(state.last_snapshot.realized_pnl,
           RNeg(RMul(equity, p.max_daily_loss_pct)))

TradeCapReached(state, p) ==
    Len(state.open_trades) >= p.max_trades_per_day

RiskWarnings(candle) ==
    IF RLt(RMul(candle.close, Rat(2, 100)), RSub(candle.high, candle.low))
    THEN <<"High intraday volatility detected.">>
    ELSE <<>>

evaluate_entry(candle, state, p) ==
    IF ~state.portfolio.present THEN VetoResult("Portfolio not found.")
    ELSE LET equity == EquityBasis(state) IN
         IF IsNone(equity) THEN VetoResult("No equity data available.")
         ELSE LET size == RDiv(RMul(equity, p.max_risk_pct), candle.close) IN
              IF DailyLossExceeded(state, equity, p)
              THEN VetoResult("Daily loss exceeded")
              ELSE IF TradeCapReached(state, p)
              THEN VetoResult("Max trades per day reached.")
              ELSE AllowResult(size, RiskWarnings(candle))

\* RiskCheckResult.is_veto
is_veto(risk) == ~risk.allow

\* ------------------------------------------------------------------------
\* OrderManager._compute_slippage_and_limit
\* ------------------------------------------------------------------------
\* faulty variant of SlippageOk: the comparison with max_slippage_pct is lost
SlippageAlwaysOk(change_pct, max_slip_pct) == TRUE

SlippageOk(change_pct, max_slip_pct) == RLe(change_pct, max_slip_pct)

\* faulty variant of LimitPrice: the percentage is not divided by 100
LimitPriceUnscaled(signal_price, preview_price, max_slip_pct) ==
    IF RLe(signal_price, preview_price)
    THEN RMul(signal_price, RAdd(R(1), max_slip_pct))
    ELSE RMul(signal_price, RSub(R(1), max_slip_pct))

LimitPrice(signal_price, preview_price, max_slip_pct) ==
    IF RLe(signal_price, preview_price)
    THEN RMul(signal_price, RAdd(R(1), RDiv(max_slip_pct, R(100))))
    ELSE RMul(signal_price, RSub(R(1), RDiv(max_slip_pct, R(100))))

compute_slippage_and_limit(signal_price, preview_price, max_slip_pct) ==
    LET change_pct ==
            RMul(RDiv(RAbs(RSub(preview_price, signal_price)), signal_price), R(100))
    IN  [change_pct |-> change_pct,
         limit_price |-> LimitPrice(signal_price, preview_price, max_slip_pct),
         ok |-> SlippageOk(change_pct, max_slip_pct)]

\* ------------------------------------------------------------------------
\* Execution engines
\* ------------------------------------------------------------------------
\* SimulatedExecutionEngine.fee_bps default
FeeBps == 5

\* ExecutionResult
ExecResult(id, status, filled_size, avg_fill_price, fee) ==
    [exchange_order_id |-> id, status |-> status, filled_size |-> filled_size,
     avg_fill_price |-> avg_fill_price, fee |-> fee]

NewEngine(kind) == [kind |-> kind, orders |-> <<>>, next_id |-> 1]

\* submit: allocate the next order id and store the pending order
Lower(side) == IF side = "BUY" THEN "buy" ELSE "sell"

EngineSubmit(eng, side, size, price) ==
    [eng EXCEPT !.orders = Append(@, [id |-> eng.next_id, side |-> Lower(side),
                                      size |-> size, price |-> price,
                                      status |-> "SUBMITTED"]),
                !.next_id = @ + 1]

KnownOrder(eng, id) == \E i \in 1..Len(eng.orders) : eng.orders[i].id = id
OrderIndex(eng, id) == CHOOSE i \in 1..Len(eng.orders) : eng.orders[i].id = id

\* faulty variant of SimFillPrice: the fill is one unit above the stored price
SimFillPriceOff(o) == IF Truthy(o.price) THEN RAdd(o.price, R(1)) ELSE R(0)

\* price = order["price"] or 0.0
SimFillPrice(o) == IF Truthy(o.price) THEN o.price ELSE R(0)

\* SimulatedExecutionEngine.poll: the result
SimPollResult(eng, id) ==
    IF ~KnownOrder(eng, id)
    THEN ExecResult(id, "REJECTED", R(0), NoneR, R(0))
    ELSE LET o == eng.orders[OrderIndex(eng, id)]
             price == SimFillPrice(o)
             notional == RMul(price, o.size)
         IN  ExecResult(id, "FILLED", o.size, price,
                        RMul(RAbs(notional), Rat(FeeBps, 10000)))

\* SimulatedExecutionEngine.poll: the engine afterwards
SimPollEngine(eng, id) ==
    IF ~KnownOrder(eng, id) THEN eng
    ELSE [eng EXCEPT !.orders[OrderIndex(eng, id)].status = "FILLED"]

\* What preview answers for a signal price.  SimulatedExecutionEngine.preview
\* echoes its price argument, which handle_enter / handle_exit never pass:
\* None.  Any other backend answers with a quote of its own: none, one
\* 0.5 % below the signal price, or one 2 % above it.
\* faulty variant of PreviewAnswers: every backend quotes 2 % above the price
PreviewQuotesAway(eng, price) == {RMul(price, Rat(102, 100))}

PreviewAnswers(eng, price) ==
    IF eng.kind = "paper" THEN {NoneR}
    ELSE {NoneR, RMul(price, Rat(199, 200)), RMul(price, Rat(102, 100))}

\* Statuses a non-simulated backend reports for an order it holds
TerminalStatuses == {"FILLED", "CANCELLED", "REJECTED"}
PendingStatuses == {"OPEN"}

\* ------------------------------------------------------------------------
\* State
\* ------------------------------------------------------------------------
VARIABLES
    pc,               \* where StrategyRunner.run is
    bar_no,           \* candles taken from the input so far (also the clock)
    candle,           \* the candle being processed
    params,           \* strategy_params
    engine,           \* the execution engine: kind, stored orders, _next_id
    portfolio,        \* portfolios row
    last_snapshot,    \* latest daily_snapshots row
    orders,           \* orders table
    trades,           \* trades table
    signal_rows,      \* signals table
    risk_events,      \* risk_events table
    portfolio_state,  \* PortfolioState loaded for the current candle
    last_signal_type, \* StrategyRunner.last_signal_type
    signals,          \* the list run() returns
    frame,            \* the handle_enter / handle_exit call in its poll loop
    poll_tick,        \* iterations of the current poll loop, modulo PollWrap
    bar_log,          \* what happened on the current candle (history)
    risk_in,          \* evaluate_entry on its own: the arguments
    risk_out,         \* evaluate_entry on its own: the result
    poll_log,         \* SimulatedExecutionEngine on its own: poll results
    fast,             \* FastBacktestEngine.run replaying the runner's candles
    backtest          \* BacktestEngine.run_backtest: calls made and results

vars == <<pc, bar_no, candle, params, engine, portfolio, last_snapshot, orders,
          trades, signal_rows, risk_events, portfolio_state, last_signal_type,
          signals, frame, poll_tick, bar_log, risk_in, risk_out, poll_log,
          fast, backtest>>

runner_vars == <<pc, bar_no, candle, params, engine, portfolio, last_snapshot,
                 orders, trades, signal_rows, risk_events, portfolio_state,
                 last_signal_type, signals, frame, poll_tick, bar_log>>

\* ------------------------------------------------------------------------
\* Rows
\* ------------------------------------------------------------------------
NoAnalytics ==
    [mfe |-> NoneR, mae |-> NoneR, max_runup_pct |-> NoneR,
     max_drawdown_pct |-> NoneR, volatility_at_entry |-> NoneR,
     time_in_trade |-> -1, exit_trigger |-> "None"]

\* DB.record_trade: the Trade row it inserts (analytics at its default {})
TradeRow(id, entry_order_id, exit_order_id, entry_price, exit_price, size, realized_pnl, realized_pnl_pct, opened_at, closed_at, exit_reason) ==
    [id |-> id, entry_order_id |-> entry_order_id,
     exit_order_id |-> exit_order_id, entry_price |-> entry_price,
     exit_price |-> exit_price, size |-> size, realized_pnl |-> realized_pnl,
     realized_pnl_pct |-> realized_pnl_pct, opened_at |-> opened_at,
     closed_at |-> closed_at, exit_reason |-> exit_reason,
     analytics |-> NoAnalytics,
     asset_id |-> 1, strategy_config_id |-> 1]

NoTrade == TradeRow(0, 0, 0, NoneR, NoneR, NoneR, NoneR, NoneR, 0, 0, "None")

\* Order(...) as handle_enter / handle_exit add it.  signal_price,
\* limit_price, trade_id and auto_reason are not columns: they keep the price
\* the call was made with, the limit it submitted (the price column is
\* overwritten on fill) and, for a sell, the id of the trade handle_exit took
\* from the snapshot and the auto_reason argument of the call.
OrderRow(id, side, size, limit_price, opened_at, is_simulated, signal_price, trade_id, auto_reason) ==
    [id |-> id, side |-> side, size |-> size, price |-> limit_price,
     status |-> "submitted", exchange_order_id |-> 0, fee |-> R(0),
     opened_at |-> opened_at, filled_at |-> 0, is_simulated |-> is_simulated,
     signal_price |-> signal_price, limit_price |-> limit_price,
     trade_id |-> trade_id, auto_reason |-> auto_reason]

NoFrame ==
    [kind |-> "none", order_id |-> 0, trade |-> NoTrade, reason |-> "None",
     volatility |-> NoneR, resume |-> "next_bar"]

EmptyState ==
    [portfolio |-> PaperPortfolio, open_trades |-> <<>>,
     last_snapshot |-> NoSnapshot]

NoPoll == [kind |-> "none", order_id |-> 0, status |-> "None"]

\* What happened on the current candle: the previous and the current
\* candle's strategy output, table sizes when the candle and when the signal
\* handling began, which calls run made for the signal, the size the risk
\* manager recommended, the quote preview gave handle_enter, and the poll
\* result that ended the last poll loop.
NewBarLog ==
    [prev_sig |-> "None", sig |-> "None", signal_rows_at_start |-> 0,
     orders_at_start |-> 0, orders_before_signal |-> 0,
     submits_before_signal |-> 0, risk_evaluated |-> FALSE,
     risk_size |-> NoneR,
     enter_called |-> FALSE, enter_preview |-> NoneR, exit_called |-> FALSE,
     auto_exit |-> "None", last_poll |-> NoPoll]

\* ------------------------------------------------------------------------
\* FastBacktestEngine.run
\* ------------------------------------------------------------------------
\* FastTrade; entry_time and exit_time are candle numbers, 0 for None
FastTrade(entry_time, exit_time, entry_price, exit_price, pnl, size) ==
    [entry_time |-> entry_time, exit_time |-> exit_time,
     entry_price |-> entry_price, exit_price |-> exit_price, pnl |-> pnl,
     size |-> size]

NoFastTrade == FastTrade(0, 0, NoneR, NoneR, NoneR, NoneR)

\* no strategy object is modelled: the signals are inputs
NoStrategy ==
    [kind |-> "None", lookback |-> 0, maxlen |-> 0, closes |-> <<>>,
     last_signal |-> "None"]

\* the engine is not running
NoFast ==
    [on |-> FALSE, bar |-> 0, equity |-> NoneR, peak_equity |-> NoneR,
     open_trade |-> NoFastTrade, trades |-> <<>>, signals_seen |-> 0,
     strategy |-> NoStrategy]

\* the in-memory state before the first candle
NewFast(portfolio_equity) ==
    [on |-> TRUE, bar |-> 0, equity |-> portfolio_equity,
     peak_equity |-> portfolio_equity, open_trade |-> NoFastTrade,
     trades |-> <<>>, signals_seen |-> 0, strategy |-> NoStrategy]

\* faulty variant of FastClose: the peak is not raised
FastCloseKeepsPeak(f, now, price, pnl) ==
    LET ot == f.open_trade
    IN  [f EXCEPT !.bar = now,
                  !.equity = RAdd(f.equity, pnl),
                  !.trades = Append(f.trades,
                                    FastTrade(ot.entry_time, now, ot.entry_price,
                                              price, pnl, ot.size)),
                  !.open_trade = NoFastTrade]

\* a closing branch: equity += pnl, trades.append(...), open_trade = None,
\* peak_equity = max(peak_equity, equity)
FastClose(f, now, price, pnl) ==
    LET ot == f.open_trade
        equity == RAdd(f.equity, pnl)
    IN  [f EXCEPT !.bar = now,
                  !.equity = equity,
                  !.peak_equity = RMax(f.peak_equity, equity),
                  !.trades = Append(f.trades,
                                    FastTrade(ot.entry_time, now, ot.entry_price,
                                              price, pnl, ot.size)),
                  !.open_trade = NoFastTrade]

\* one pass of `for c in candles`; sig_type is what strategy.on_bar returns
\* for the candle ("None" for None), asked for only when no automatic exit
\* has ended the pass
FastLoopBody(f, c, now, sig_type, p) ==
    LET ot == f.open_trade
        has_open == ot # NoFastTrade
        max_risk_pct == p.max_risk_pct
        stop_loss_pct == RDiv(p.stop_loss_pct, R(100))
        take_profit_pct == RDiv(p.take_profit_pct, R(100))
        price == c.close
        entry == ot.entry_price
    IN  IF /\ has_open
           /\ RLt(R(0), stop_loss_pct)
           /\ RLe(price, RMul(entry, RSub(R(1), stop_loss_pct)))
        THEN LET position_size == RDiv(RMul(f.equity, max_risk_pct), entry)
             IN  FastClose(f, now, price, RMul(position_size, RSub(price, entry)))
        ELSE IF /\ has_open
                /\ RLt(R(0), take_profit_pct)
                /\ RLe(RMul(entry, RAdd(R(1), take_profit_pct)), price)
        THEN FastClose(f, now, price, RMul(RSub(price, entry), ot.size))
        ELSE IF sig_type = "None"
        THEN [f EXCEPT !.bar = now]
        ELSE LET g == [f EXCEPT !.bar = now, !.signals_seen = @ + 1] IN
             IF sig_type = "enter" /\ ~has_open
             THEN [g EXCEPT !.open_trade =
                      FastTrade(now, 0, price, NoneR, NoneR,
                                RDiv(RMul(f.equity, max_risk_pct), price))]
             ELSE IF sig_type = "exit" /\ has_open
             THEN FastClose(g, now, price, RMul(RSub(price, entry), ot.size))
             ELSE g

\* ------------------------------------------------------------------------
\* BacktestEngine.run_backtest: inputs and results
\* ------------------------------------------------------------------------
\* BacktestResult, with the signals run returned and, of every Orders and
\* Trades row of the scope, the candles, prices and sizes
NoResult ==
    [present |-> FALSE, signals |-> <<>>, orders |-> <<>>, trades |-> <<>>,
     total_trades |-> 0,
     win_rate |-> NoneR, final_equity |-> NoneR]

\* the triple run_backtest is called with
BacktestTriple == [portfolio_id |-> 1, asset_id |-> 1, strategy_config_id |-> 1]

\* rows the database holds beside those of the triple: in each of the five
\* tables one row written for another asset of the portfolio, one for another
\* strategy-config of it, and one of another portfolio.  risk_events and
\* daily_snapshots carry a portfolio_id column only; asset_id and
\* strategy_config_id say which run wrote the row.
ForeignRows ==
    { [tbl |-> t, portfolio_id |-> k[1], asset_id |-> k[2],
       strategy_config_id |-> k[3]] :
        t \in {"orders", "trades", "signals", "risk_events", "daily_snapshots"},
        k \in {<<1, 2, 1>>, <<1, 1, 2>>, <<2, 1, 1>>} }

\* the WHERE clause of the DELETE that _reset_portfolio_state runs on the
\* table of row r
ResetDeletes(r, triple) ==
    IF r.tbl \in {"orders", "trades", "signals"}
    THEN /\ r.portfolio_id = triple.portfolio_id
         /\ r.asset_id = triple.asset_id
         /\ r.strategy_config_id = triple.strategy_config_id
    ELSE r.portfolio_id = triple.portfolio_id

\* a StrategyRunner that is not the one executing: the attributes of the
\* instance and of its OrderManager and engine, where it stands in run, the
\* candles it was given, and the rows WHERE portfolio_id == its portfolio_id
NewRunner(portfolio_id, plan) ==
    [portfolio_id |-> portfolio_id, plan |-> plan, pc |-> "next_bar",
     bar_no |-> 0, candle |-> MkCandle(100), engine |-> NewEngine("paper"),
     portfolio_state |-> EmptyState, last_signal_type |-> "None",
     signals |-> <<>>, frame |-> NoFrame, poll_tick |-> 0,
     bar_log |-> NewBarLog, orders |-> <<>>, trades |-> <<>>,
     signal_rows |-> <<>>, risk_events |-> <<>>, last_snapshot |-> NoSnapshot]

NoRunner == [NewRunner(0, <<>>) EXCEPT !.pc = "done"]

\* no backtest is running
NoBacktest ==
    [calls |-> 0, plan |-> <<>>, previous |-> NoResult, result |-> NoResult,
     backtest_runs |-> 0, foreign_rows |-> ForeignRows,
     portfolio_id |-> 1, other |-> NoRunner]

\* ------------------------------------------------------------------------
\* DB.load_portfolio_state
\* ------------------------------------------------------------------------
OpenTrades(ts) == SelectSeq(ts, LAMBDA t : t.closed_at = 0)

OPEN_ORDER_STATUSES == {"open", "pending", "partially_filled"}

\* open_orders of the snapshot: Order.status.in_(OPEN_ORDER_STATUSES)
OpenOrders(os) == SelectSeq(os, LAMBDA o : o.status \in OPEN_ORDER_STATUSES)

\* The query has no ORDER BY: any open trade may come first.
MoveToFront(s, i) ==
    <<s[i]>> \o SelectSeq(s, LAMBDA t : t.id # s[i].id)

LoadedStates ==
    LET open == OpenTrades(trades) IN
    IF open = <<>>
    THEN {[portfolio |-> portfolio, open_trades |-> <<>>,
           last_snapshot |-> last_snapshot]}
    ELSE {[portfolio |-> portfolio, open_trades |-> MoveToFront(open, i),
           last_snapshot |-> last_snapshot] : i \in 1..Len(open)}

\* index in the trades table of the row with this id (rows are never deleted
\* during a run: the id is the position)
TradeIndex(id) == id

\* ------------------------------------------------------------------------
\* OrderManager.update_trade_tracking_each_candle
\* ------------------------------------------------------------------------
\* meta.get(key, 0.0)
MetaGet(x) == IF IsNone(x) THEN R(0) ELSE x

\* faulty variant of TrackedAnalytics: the current change replaces the extremes
TrackedLastChange(trade, cdl) ==
    LET pct_change == RDiv(RSub(cdl.close, trade.entry_price), trade.entry_price)
    IN  [trade.analytics EXCEPT !.mfe = pct_change, !.mae = pct_change,
                                !.max_runup_pct = pct_change,
                                !.max_drawdown_pct = pct_change]

\* faulty variant of TrackedAnalytics: the candle is not looked at
UntrackedAnalytics(trade, cdl) == trade.analytics

TrackedAnalytics(trade, cdl) ==
    LET pct_change == RDiv(RSub(cdl.close, trade.entry_price), trade.entry_price)
        mfe == RMax(MetaGet(trade.analytics.mfe), pct_change)
        mae == RMin(MetaGet(trade.analytics.mae), pct_change)
    IN  [trade.analytics EXCEPT !.mfe = mfe, !.mae = mae,
                                !.max_runup_pct = mfe, !.max_drawdown_pct = mae]

\* the trades table after tracking
TrackedTrades(state, cdl) ==
    IF state.open_trades = <<>> THEN trades
    ELSE LET trade == state.open_trades[1] IN
         [trades EXCEPT ![TradeIndex(trade.id)].analytics =
                            TrackedAnalytics(trade, cdl)]

\* the loaded PortfolioState after tracking: meta is the dict of the loaded
\* trade object, updated in place
TrackedState(state, cdl) ==
    IF state.open_trades = <<>> THEN state
    ELSE [state EXCEPT !.open_trades[1].analytics =
                           TrackedAnalytics(state.open_trades[1], cdl)]

\* ------------------------------------------------------------------------
\* OrderManager.check_auto_exits: which exit it fires, if any
\* ------------------------------------------------------------------------
\* faulty variant of AutoExitReason: a close exactly on a trigger fires nothing
AutoExitStrict(cdl, state, p) ==
    IF state.open_trades = <<>> THEN "None"
    ELSE LET entry_price == state.open_trades[1].entry_price
             sl_trigger == RMul(entry_price,
                                RSub(R(1), RDiv(p.stop_loss_pct, R(100))))
             tp_trigger == RMul(entry_price,
                                RAdd(R(1), RDiv(p.take_profit_pct, R(100))))
         IN  IF RLt(R(0), p.stop_loss_pct) /\ RLt(cdl.close, sl_trigger)
             THEN "stop_loss"
             ELSE IF RLt(R(0), p.take_profit_pct) /\ RLt(tp_trigger, cdl.close)
             THEN "take_profit"
             ELSE "None"

AutoExitReason(cdl, state, p) ==
    IF state.open_trades = <<>> THEN "None"
    ELSE IF p.stop_loss_pct = R(0) /\ p.take_profit_pct = R(0) THEN "None"
    ELSE LET entry_price == state.open_trades[1].entry_price
             sl_trigger == RMul(entry_price,
                                RSub(R(1), RDiv(p.stop_loss_pct, R(100))))
             tp_trigger == RMul(entry_price,
                                RAdd(R(1), RDiv(p.take_profit_pct, R(100))))
         IN  IF RLt(R(0), p.stop_loss_pct) /\ RLe(cdl.close, sl_trigger)
             THEN "stop_loss"
             ELSE IF RLt(R(0), p.take_profit_pct) /\ RLe(tp_trigger, cdl.close)
             THEN "take_profit"
             ELSE "None"

\* ------------------------------------------------------------------------
\* OrderManager.handle_enter / handle_exit up to the poll loop
\* ------------------------------------------------------------------------
\* size_override if given, else 2 % of the equity basis
EnterSize(price, size_override, state) ==
    IF ~IsNone(size_override) THEN size_override
    ELSE RDiv(RMul(EquityBasis(state), Rat(2, 100)), price)

\* LiveCoinbaseExecutionEngine.submit raises NotImplementedError for the
\* limit orders the OrderManager submits; the session holding the new Order
\* row is closed without a commit.
SubmitRaises(eng) == eng.kind = "coinbase"

HandleEnter(price, now, cdl, size_override, state, pv, resume) ==
    LET size == EnterSize(price, size_override, state)
        preview_price == IF IsNone(pv) THEN price ELSE pv
        slip == compute_slippage_and_limit(price, preview_price,
                                           params.max_slippage_pct)
        oid == Len(orders) + 1
    IN  IF RLe(size, R(0)) \/ ~slip.ok
        THEN /\ pc' = resume
             /\ UNCHANGED <<orders, engine, frame, poll_tick>>
        ELSE IF SubmitRaises(engine)
        THEN /\ pc' = "raised"
             /\ UNCHANGED <<orders, engine, frame, poll_tick>>
        ELSE /\ orders' = Append(orders,
                   [OrderRow(oid, "buy", size, slip.limit_price, now, FALSE, price, 0, "None")
                       EXCEPT !.exchange_order_id = engine.next_id])
             /\ engine' = EngineSubmit(engine, "BUY", size, slip.limit_price)
             /\ frame' = [kind |-> "enter", order_id |-> oid, trade |-> NoTrade,
                          reason |-> "None",
                          volatility |-> RDiv(RSub(cdl.high, cdl.low), cdl.close),
                          resume |-> resume]
             /\ poll_tick' = 0
             /\ pc' = "poll"

HandleExit(price, now, auto_reason, state, pv, resume) ==
    IF state.open_trades = <<>>
    THEN /\ pc' = resume
         /\ UNCHANGED <<orders, engine, frame, poll_tick>>
    ELSE LET trade == state.open_trades[1]
             preview_price == IF IsNone(pv) THEN price ELSE pv
             slip == compute_slippage_and_limit(price, preview_price,
                                                params.max_slippage_pct)
             oid == Len(orders) + 1
         IN  IF ~slip.ok
             THEN /\ pc' = resume
                  /\ UNCHANGED <<orders, engine, frame, poll_tick>>
             ELSE IF SubmitRaises(engine)
             THEN /\ pc' = "raised"
                  /\ UNCHANGED <<orders, engine, frame, poll_tick>>
             ELSE /\ orders' = Append(orders,
                        [OrderRow(oid, "sell", trade.size, slip.limit_price, now,
                                  engine.kind = "paper", price, trade.id,
                                  auto_reason)
                            EXCEPT !.exchange_order_id = engine.next_id])
                  /\ engine' = EngineSubmit(engine, "SELL", trade.size,
                                            slip.limit_price)
                  /\ frame' = [kind |-> "exit", order_id |-> oid,
                               trade |-> trade,
                               reason |-> IF auto_reason = "None"
                                          THEN "exit_signal" ELSE auto_reason,
                               volatility |-> NoneR, resume |-> resume]
                  /\ poll_tick' = 0
                  /\ pc' = "poll"

\* ------------------------------------------------------------------------
\* OrderManager.handle_enter / handle_exit after the poll loop
\* ------------------------------------------------------------------------
\* faulty variant of IsFilled: a CANCELLED result is finalised like a fill
IsFilledOrCancelled(res) == res.status \in {"FILLED", "CANCELLED"}

\* if result.status == "FILLED"
IsFilled(res) == res.status = "FILLED"

\* db_order.status / price / filled_at / fee = ...
\* faulty variant of FinalizedOrder: the status of the poll result is not
\* written to the row
FinalizedOrderKeepsStatus(order, res, now) ==
    [order EXCEPT !.price = res.avg_fill_price, !.filled_at = now,
                  !.fee = res.fee]

FinalizedOrder(order, res, now) ==
    [order EXCEPT !.status = res.status, !.price = res.avg_fill_price,
                  !.filled_at = now, !.fee = res.fee]

InitialTags(volatility) ==
    [NoAnalytics EXCEPT !.mfe = R(0), !.mae = R(0), !.max_runup_pct = R(0),
                        !.max_drawdown_pct = R(0),
                        !.volatility_at_entry = volatility]

\* the Trade row handle_enter records for a filled entry order
EntryTrade(db_order, res, volatility) ==
    [TradeRow(Len(trades) + 1, db_order.id, 0, res.avg_fill_price, NoneR,
              res.filled_size, NoneR, NoneR, db_order.filled_at, 0, "None")
        EXCEPT !.analytics = InitialTags(volatility)]

RealizedPnl(trade, res) ==
    IF Truthy(trade.entry_price) /\ Truthy(trade.size)
    THEN RMul(RSub(res.avg_fill_price, trade.entry_price), trade.size)
    ELSE NoneR

\* faulty variant of RealizedPct: the profit is divided by the entry price alone
RealizedPctPerUnit(trade, res) ==
    IF Truthy(trade.entry_price) /\ Truthy(trade.size)
    THEN RDiv(RealizedPnl(trade, res), trade.entry_price)
    ELSE NoneR

RealizedPct(trade, res) ==
    IF Truthy(trade.entry_price) /\ Truthy(trade.size)
    THEN RDiv(RealizedPnl(trade, res), RMul(trade.entry_price, trade.size))
    ELSE NoneR

\* the Trade row handle_exit hands to DB.record_trade for a filled exit order
ExitTrade(trade, db_order, res, reason) ==
    TradeRow(Len(trades) + 1, trade.entry_order_id, db_order.id,
             trade.entry_price, res.avg_fill_price, trade.size,
             RealizedPnl(trade, res), RealizedPct(trade, res),
             trade.opened_at, db_order.filled_at, reason)

\* meta written back to the trade handle_exit took from the snapshot
ExitAnalytics(trade, db_order, reason) ==
    [trade.analytics EXCEPT
        !.time_in_trade = IF trade.opened_at # 0 /\ db_order.filled_at # 0
                          THEN db_order.filled_at - trade.opened_at ELSE @,
        !.exit_trigger = reason]

\* DB.record_trade: session.add(Trade(...)); commit -- always a new row
record_trade(ts, row) == Append(ts, row)

\* the trades table after handle_enter's finalisation
TradesAfterEnter(db_order, res, volatility) ==
    IF IsFilled(res)
    THEN record_trade(trades, EntryTrade(db_order, res, volatility))
    ELSE trades

\* the trades table after handle_exit's finalisation
TradesAfterExit(trade, db_order, res, reason) ==
    IF IsFilled(res)
    THEN [record_trade(trades, ExitTrade(trade, db_order, res, reason))
             EXCEPT ![TradeIndex(trade.id)].analytics =
                        ExitAnalytics(trade, db_order, reason)]
    ELSE trades

\* ------------------------------------------------------------------------
\* engine.poll(order.exchange_order_id)
\* ------------------------------------------------------------------------
\* A non-simulated backend answers what the exchange holds: still open, or
\* one of the terminal statuses; a fill is in full and at the limit price.
ExchangeAnswers(order) ==
    {ExecResult(order.exchange_order_id, "FILLED", order.size,
                order.limit_price, R(0))}
    \cup {ExecResult(order.exchange_order_id, st, R(0), NoneR, R(0)) :
            st \in {"CANCELLED", "REJECTED"}}

PollAnswers(eng, order) ==
    IF eng.kind = "paper"
    THEN {SimPollResult(eng, order.exchange_order_id)}
    ELSE ExchangeAnswers(order)

EngineAfterPoll(eng, order, res) ==
    IF eng.kind = "paper"
    THEN SimPollEngine(eng, order.exchange_order_id)
    ELSE [eng EXCEPT !.orders[OrderIndex(eng, order.exchange_order_id)].status
                         = res.status]

\* ------------------------------------------------------------------------
\* StrategyRunner.run
\* ------------------------------------------------------------------------
BarLimit == IF engine.kind = "paper" THEN MaxBars ELSE MaxLiveBars

\* faulty variant of Debounced: no signal is ever dropped
NeverDebounced(sig_type, last) == FALSE

\* faulty variant of Debounced: only a repeated EXIT is dropped
ExitOnlyDebounced(sig_type, last) == sig_type = last /\ sig_type = "exit"

\* if sig.signal_type == self.last_signal_type: continue
Debounced(sig_type, last) == sig_type = last

\* no order is placed: control goes on at `resume`
NoOrder(resume) ==
    /\ pc' = resume
    /\ UNCHANGED <<orders, engine, frame, poll_tick>>

\* for candle in candles: load the state, track the open trade, check the
\* automatic exits
StartBar ==
    /\ pc = "next_bar"
    /\ bar_no < BarLimit
    /\ \E c \in ClosePrices, loaded \in LoadedStates :
        LET cdl == MkCandle(c)
            now == bar_no + 1
            state == TrackedState(loaded, cdl)
            auto == AutoExitReason(cdl, state, params)
        IN  /\ bar_no' = now
            /\ candle' = cdl
            /\ trades' = TrackedTrades(loaded, cdl)
            /\ portfolio_state' = state
            /\ bar_log' = [NewBarLog EXCEPT
                              !.prev_sig = bar_log.sig,
                              !.signal_rows_at_start = Len(signal_rows),
                              !.orders_at_start = Len(orders),
                              !.auto_exit = auto]
            /\ IF auto = "None"
               THEN NoOrder("strategy")
               ELSE \E pv \in PreviewAnswers(engine, cdl.close) :
                        HandleExit(cdl.close, now, auto, state, pv, "strategy")
    /\ UNCHANGED <<fast, backtest>>
    /\ UNCHANGED <<params, portfolio, last_snapshot, signal_rows, risk_events,
                   last_signal_type, signals, risk_in, risk_out, poll_log>>

\* if sig.signal_type == SignalType.ENTER
IsEnter(sig_type) == sig_type = "enter"

\* faulty variant of IsExit: an else branch instead of the elif
IsNotEnter(sig_type) == sig_type # "enter"

\* elif sig.signal_type == SignalType.EXIT
IsExit(sig_type) == sig_type = "exit"

\* the details dict holds candle.timestamp as it is: a datetime
VetoEvent(risk, cdl, price) ==
    [event_type |-> "EntryVeto", text |-> risk.veto_reason,
     candle_timestamp |-> "datetime", candle_close |-> cdl.close,
     signal_price |-> price]

WarningEvents(risk, cdl, price) ==
    [i \in 1..Len(risk.warnings) |->
        [event_type |-> "RiskWarning", text |-> risk.warnings[i],
         candle_timestamp |-> "datetime", candle_close |-> cdl.close,
         signal_price |-> price]]

\* faulty variant of JsonSerializable: datetimes are written as text
JsonSerializesAll(evt) == TRUE

\* RiskEvent.details is a JSON column, serialised with json.dumps when the
\* row is flushed: str, numbers and None pass, a datetime raises TypeError
JsonSerializable(evt) == evt.candle_timestamp \in {"str", "None"}

RECURSIVE record_risk_events(_, _)
\* DB.record_risk_event for each event in turn, called from
\* _record_risk_veto / _record_risk_warning: a failed insert is rolled back
\* and the exception is logged and swallowed
record_risk_events(events, evts) ==
    IF evts = <<>> THEN events
    ELSE record_risk_events(IF JsonSerializable(evts[1])
                            THEN Append(events, evts[1]) ELSE events,
                            Tail(evts))

\* sig = self.strategy.generate_signal(candle, portfolio_state) and what
\* run does with it
StrategyStep ==
    /\ pc = "strategy"
    /\ \E out \in StrategyOutputs :
        LET price == candle.close
            risk == evaluate_entry(candle, portfolio_state, params)
            dropped == out.type = "None" \/ Debounced(out.type, last_signal_type)
            persisted == ~dropped /\ out.has_value
            enters == persisted /\ IsEnter(out.type)
            exits == persisted /\ IsExit(out.type)
        IN  /\ last_signal_type' = IF dropped THEN last_signal_type ELSE out.type
            /\ signals' = IF dropped THEN signals ELSE Append(signals, out.type)
            /\ signal_rows' =
                 IF persisted
                 THEN Append(signal_rows, [signal_type |-> out.type,
                                           price |-> price, timestamp |-> bar_no])
                 ELSE signal_rows
            /\ risk_events' =
                 IF ~enters THEN risk_events
                 ELSE IF is_veto(risk)
                 THEN record_risk_events(risk_events,
                                         <<VetoEvent(risk, candle, price)>>)
                 ELSE record_risk_events(risk_events,
                                         WarningEvents(risk, candle, price))
            /\ \E pv \in IF (enters /\ ~is_veto(risk)) \/ exits
                        THEN PreviewAnswers(engine, price) ELSE {NoneR} :
                /\ bar_log' = [bar_log EXCEPT
                                  !.sig = out.type,
                                  !.orders_before_signal = Len(orders),
                                  !.submits_before_signal = Len(engine.orders),
                                  !.risk_evaluated = enters,
                                  !.risk_size = IF enters THEN risk.size ELSE NoneR,
                                  !.enter_called = enters /\ ~is_veto(risk),
                                  !.enter_preview = pv,
                                  !.exit_called = exits]
                /\ IF dropped THEN NoOrder("next_bar")
                   ELSE IF ~out.has_value THEN NoOrder("raised")
                   ELSE IF enters /\ ~is_veto(risk)
                   THEN HandleEnter(price, bar_no, candle, risk.size,
                                    portfolio_state, pv, "next_bar")
                   ELSE IF exits
                   THEN HandleExit(price, bar_no, "None", portfolio_state, pv,
                                   "next_bar")
                   ELSE NoOrder("next_bar")
    /\ UNCHANGED <<fast, backtest>>
    /\ UNCHANGED <<bar_no, candle, params, portfolio, last_snapshot, trades,
                   portfolio_state, risk_in, risk_out, poll_log>>

\* while True: result = poll(...) -- the backend reports a status that is
\* none of FILLED, CANCELLED, REJECTED and the loop goes round
PollPending ==
    /\ pc = "poll"
    /\ engine.kind # "paper"
    /\ poll_tick' = (poll_tick + 1) % PollWrap
    /\ UNCHANGED <<fast, backtest>>
    /\ UNCHANGED <<pc, bar_no, candle, params, engine, portfolio, last_snapshot,
                   orders, trades, signal_rows, risk_events, portfolio_state,
                   last_signal_type, signals, frame, bar_log, risk_in,
                   risk_out, poll_log>>

\* the poll that ends the loop, and the finalisation after it
PollTerminal ==
    /\ pc = "poll"
    /\ LET order == orders[frame.order_id] IN
       \E res \in PollAnswers(engine, order) :
        LET db_order == FinalizedOrder(order, res, bar_no) IN
        /\ engine' = EngineAfterPoll(engine, order, res)
        /\ orders' = [orders EXCEPT ![frame.order_id] = db_order]
        /\ trades' = IF frame.kind = "enter"
                     THEN TradesAfterEnter(db_order, res, frame.volatility)
                     ELSE TradesAfterExit(frame.trade, db_order, res, frame.reason)
        /\ bar_log' = [bar_log EXCEPT
                          !.last_poll = [kind |-> frame.kind,
                                         order_id |-> frame.order_id,
                                         status |-> res.status]]
        /\ pc' = frame.resume
        /\ frame' = NoFrame
        /\ poll_tick' = 0
    /\ UNCHANGED <<fast, backtest>>
    /\ UNCHANGED <<bar_no, candle, params, portfolio, last_snapshot,
                   signal_rows, risk_events, portfolio_state, last_signal_type,
                   signals, risk_in, risk_out, poll_log>>

\* the candles are exhausted: return signals
Return ==
    /\ pc = "next_bar"
    /\ pc' = "done"
    /\ UNCHANGED <<fast, backtest>>
    /\ UNCHANGED <<bar_no, candle, params, engine, portfolio, last_snapshot,
                   orders, trades, signal_rows, risk_events, portfolio_state,
                   last_signal_type, signals, frame, poll_tick, bar_log,
                   risk_in, risk_out, poll_log>>

NoRiskIn == [candle |-> MkCandle(100), state |-> EmptyState, params |-> CHOOSE p \in ParamChoices : TRUE]
NoRiskOut == [called |-> FALSE, result |-> VetoResult("None")]

RunnerInit(kinds) ==
    /\ pc = "next_bar"
    /\ bar_no = 0
    /\ candle = MkCandle(100)
    /\ params \in ParamChoices
    /\ engine \in {NewEngine(k) : k \in kinds}
    /\ portfolio \in PortfolioChoices
    /\ last_snapshot \in SnapshotChoices
    /\ orders = <<>>
    /\ trades = <<>>
    /\ signal_rows = <<>>
    /\ risk_events = <<>>
    /\ portfolio_state = EmptyState
    /\ last_signal_type = "None"
    /\ signals = <<>>
    /\ frame = NoFrame
    /\ poll_tick = 0
    /\ bar_log = NewBarLog
    /\ risk_in = NoRiskIn
    /\ risk_out = NoRiskOut
    /\ poll_log = <<>>

\* the runner with the simulated backend (TRADING_MODE = paper)
Init == RunnerInit({"paper"}) /\ fast = NoFast /\ backtest = NoBacktest

Next == StartBar \/ StrategyStep \/ PollTerminal \/ Return

Spec == Init /\ [][Next]_vars

\* the runner with a non-simulated backend: LiveCoinbaseExecutionEngine
\* ("coinbase") or another implementation of ExecutionEngine ("exchange")
LiveInit == RunnerInit({"coinbase", "exchange"}) /\ fast = NoFast /\ backtest = NoBacktest

LiveNext == StartBar \/ StrategyStep \/ PollPending \/ PollTerminal \/ Return

LiveSpec == LiveInit /\ [][LiveNext]_vars

\* the runner with any backend
AllInit == RunnerInit({"paper", "coinbase", "exchange"}) /\ fast = NoFast /\ backtest = NoBacktest

AllSpec == AllInit /\ [][LiveNext]_vars

\* one turn of a poll loop: await asyncio.sleep(...) and the next poll
PollStep == PollPending \/ PollTerminal

\* the non-simulated runner on an event loop that keeps running the coroutine
\* it awaits: a poll loop that can take a turn eventually takes one
FairSpec == LiveInit /\ [][LiveNext]_vars /\ WF_vars(PollStep)

\* ------------------------------------------------------------------------
\* RiskManager.evaluate_entry on its own
\* ------------------------------------------------------------------------
NoPortfolio == [present |-> FALSE, starting_equity |-> NoneR]

RiskPortfolios ==
    {NoPortfolio} \cup [present : {TRUE}, starting_equity : {NoneR, R(0), R(10000)}]

RiskSnapshots ==
    {NoSnapshot} \cup [present : {TRUE}, ending_equity : {NoneR, R(10000)},
                       realized_pnl : {NoneR, R(0), R(-300), R(-310)}]

RiskOpenTrades ==
    {[i \in 1..n |-> NoTrade] : n \in 0..MaxTradesCap}

RiskCandles ==
    {MkCandle(c) : c \in ClosePrices}
        \cup {[close |-> R(100), high |-> R(103), low |-> R(99)]}

RiskInputs ==
    [candle : RiskCandles,
     state : [portfolio : RiskPortfolios, open_trades : RiskOpenTrades,
              last_snapshot : RiskSnapshots],
     params : ParamChoices]

\* the runner's variables while only a component is exercised
IdleRunnerState ==
    /\ pc = "done"
    /\ bar_no = 0
    /\ candle = MkCandle(100)
    /\ params = NoRiskIn.params
    /\ portfolio = PaperPortfolio
    /\ last_snapshot = NoSnapshot
    /\ orders = <<>>
    /\ trades = <<>>
    /\ signal_rows = <<>>
    /\ risk_events = <<>>
    /\ portfolio_state = EmptyState
    /\ last_signal_type = "None"
    /\ signals = <<>>
    /\ frame = NoFrame
    /\ poll_tick = 0
    /\ bar_log = NewBarLog

IdleRunner == IdleRunnerState /\ fast = NoFast /\ backtest = NoBacktest

RiskInit ==
    /\ IdleRunner
    /\ engine = NewEngine("paper")
    /\ poll_log = <<>>
    /\ risk_in \in RiskInputs
    /\ risk_out = NoRiskOut

EvaluateEntry ==
    /\ ~risk_out.called
    /\ risk_out' = [called |-> TRUE,
                    result |-> evaluate_entry(risk_in.candle, risk_in.state,
                                              risk_in.params)]
    /\ UNCHANGED <<fast, backtest>>
    /\ UNCHANGED <<pc, bar_no, candle, params, engine, portfolio, last_snapshot,
                   orders, trades, signal_rows, risk_events, portfolio_state,
                   last_signal_type, signals, frame, poll_tick, bar_log,
                   risk_in, poll_log>>

RiskNext == EvaluateEntry

RiskSpec == RiskInit /\ [][RiskNext]_vars

\* ------------------------------------------------------------------------
\* SimulatedExecutionEngine on its own
\* ------------------------------------------------------------------------
SimSides == {"BUY", "SELL"}
SimSizes == {Rat(1, 2), R(2)}
SimPrices == {NoneR, R(100), Rat(10201, 100)}

SimInit ==
    /\ IdleRunner
    /\ engine = NewEngine("paper")
    /\ poll_log = <<>>
    /\ risk_in = NoRiskIn
    /\ risk_out = NoRiskOut

\* submit(side, size, price); poll_log gets an empty history for the new id
SimSubmit ==
    /\ Len(engine.orders) < MaxSimOrders
    /\ \E side \in SimSides, size \in SimSizes, price \in SimPrices :
           engine' = EngineSubmit(engine, side, size, price)
    /\ poll_log' = Append(poll_log, <<>>)
    /\ UNCHANGED <<fast, backtest>>
    /\ UNCHANGED <<pc, bar_no, candle, params, portfolio, last_snapshot,
                   orders, trades, signal_rows, risk_events, portfolio_state,
                   last_signal_type, signals, frame, poll_tick, bar_log,
                   risk_in, risk_out>>

\* poll(id) for an id submit returned; the result is added to its history
SimPoll ==
    /\ \E i \in 1..Len(engine.orders) :
        /\ Len(poll_log[i]) < MaxSimPolls
        /\ poll_log' = [poll_log EXCEPT
                           ![i] = Append(@, SimPollResult(engine, engine.orders[i].id))]
        /\ engine' = SimPollEngine(engine, engine.orders[i].id)
    /\ UNCHANGED <<fast, backtest>>
    /\ UNCHANGED <<pc, bar_no, candle, params, portfolio, last_snapshot,
                   orders, trades, signal_rows, risk_events, portfolio_state,
                   last_signal_type, signals, frame, poll_tick, bar_log,
                   risk_in, risk_out>>

SimNext == SimSubmit \/ SimPoll

SimSpec == SimInit /\ [][SimNext]_vars

\* ------------------------------------------------------------------------
\* OrderManager.check_auto_exits on its own, with the simulated backend:
\* one open trade, one candle
\* ------------------------------------------------------------------------
AutoEntryPrices == {R(100), R(200)}
AutoCloses == {97, 98, 99, 101, 104, 105, 196, 208}
AutoStopLossPcts == {R(-1), R(0), R(2)}
AutoTakeProfitPcts == {R(-1), R(0), R(4)}

AutoParamChoices ==
    [max_slippage_pct : {R(1)},
     stop_loss_pct : AutoStopLossPcts,
     take_profit_pct : AutoTakeProfitPcts,
     max_risk_pct : {Rat(2, 100)},
     max_daily_loss_pct : {Rat(3, 100)},
     max_trades_per_day : {1}]

\* the Orders row, the Trades row and the engine after an entry of size 2
\* filled at entry_price on candle 1
AutoEntryOrder(entry_price) ==
    FinalizedOrder([OrderRow(1, "buy", R(2), entry_price, 1, FALSE,
                             RDiv(entry_price, Rat(101, 100)), 0, "None")
                       EXCEPT !.exchange_order_id = 1],
                   ExecResult(1, "FILLED", R(2), entry_price,
                              RMul(RMul(entry_price, R(2)), Rat(FeeBps, 10000))),
                   1)

AutoOpenTrade(entry_price) ==
    [TradeRow(1, 1, 0, entry_price, NoneR, R(2), NoneR, NoneR, 1, 0, "None")
        EXCEPT !.analytics = InitialTags(Rat(2, 100))]

AutoEngine(entry_price) ==
    SimPollEngine(EngineSubmit(NewEngine("paper"), "BUY", R(2), entry_price), 1)

AutoInit ==
    /\ pc = "auto"
    /\ bar_no = 2
    /\ candle \in {MkCandle(c) : c \in AutoCloses}
    /\ params \in AutoParamChoices
    /\ portfolio = PaperPortfolio
    /\ last_snapshot = NoSnapshot
    /\ \E e \in AutoEntryPrices :
        /\ engine = AutoEngine(e)
        /\ orders = <<AutoEntryOrder(e)>>
        /\ trades = <<AutoOpenTrade(e)>>
        /\ portfolio_state = [portfolio |-> PaperPortfolio,
                              open_trades |-> <<AutoOpenTrade(e)>>,
                              last_snapshot |-> NoSnapshot]
    /\ signal_rows = <<>>
    /\ risk_events = <<>>
    /\ last_signal_type = "None"
    /\ signals = <<>>
    /\ frame = NoFrame
    /\ poll_tick = 0
    /\ bar_log = [NewBarLog EXCEPT !.orders_at_start = 1]
    /\ risk_in = NoRiskIn
    /\ risk_out = NoRiskOut
    /\ poll_log = <<>>
    /\ fast = NoFast
    /\ backtest = NoBacktest

\* check_auto_exits(candle, state)
CheckAutoExits ==
    /\ pc = "auto"
    /\ LET auto == AutoExitReason(candle, portfolio_state, params) IN
        /\ bar_log' = [bar_log EXCEPT !.auto_exit = auto]
        /\ IF auto = "None"
           THEN NoOrder("done")
           ELSE \E pv \in PreviewAnswers(engine, candle.close) :
                    HandleExit(candle.close, bar_no, auto, portfolio_state, pv,
                               "done")
    /\ UNCHANGED <<fast, backtest>>
    /\ UNCHANGED <<bar_no, candle, params, portfolio, last_snapshot, trades,
                   signal_rows, risk_events, portfolio_state, last_signal_type,
                   signals, risk_in, risk_out, poll_log>>

AutoNext == CheckAutoExits \/ PollTerminal

AutoSpec == AutoInit /\ [][AutoNext]_vars

\* ------------------------------------------------------------------------
\* The runner on the simulated backend and FastBacktestEngine.run on the same
\* strategy, parameters and candles
\* ------------------------------------------------------------------------
\* as the backtest scripts set the two up: a fresh portfolio without daily
\* snapshots, and the fast engine given its starting equity
CompareInit ==
    /\ RunnerInit({"paper"})
    /\ portfolio = PaperPortfolio
    /\ last_snapshot = NoSnapshot
    /\ fast = NewFast(PaperPortfolio.starting_equity)
    /\ backtest = NoBacktest

\* the fast engine has done every candle the runner has
FastCaughtUp == fast.bar = bar_no

CompareStartBar == FastCaughtUp /\ StartBar

CompareReturn == FastCaughtUp /\ Return

\* the fast engine takes the candle the runner has just finished and the
\* signal the strategy gave for it
FastBar ==
    /\ pc = "next_bar"
    /\ ~FastCaughtUp
    /\ fast' = FastLoopBody(fast, candle, bar_no, bar_log.sig, params)
    /\ UNCHANGED backtest
    /\ UNCHANGED <<pc, bar_no, candle, params, engine, portfolio, last_snapshot,
                   orders, trades, signal_rows, risk_events, portfolio_state,
                   last_signal_type, signals, frame, poll_tick, bar_log,
                   risk_in, risk_out, poll_log>>

CompareNext ==
    CompareStartBar \/ StrategyStep \/ PollTerminal \/ FastBar \/ CompareReturn

CompareSpec == CompareInit /\ [][CompareNext]_vars

\* ------------------------------------------------------------------------
\* BacktestEngine.run_backtest, called again and again on one portfolio,
\* asset and strategy config with the same candles, strategy class and
\* parameters, reset_portfolio_state = True
\* ------------------------------------------------------------------------
\* candles of one backtest
MaxBacktestBars == 3
\* calls of run_backtest
MaxBacktestCalls == 2

BacktestCloses == {100, 106}

\* per candle: its close and what the strategy, built anew and reset for
\* every call, answers on it (a str-valued enum member, or None)
BacktestInputs == [close : BacktestCloses, type : {"None"} \cup SignalTypes]

\* the candles p with the timestamps ts, in the order of the list
Stamped(p, ts) ==
    [i \in 1..Len(p) |->
        [close |-> p[i].close, type |-> p[i].type, timestamp |-> ts[i]]]

\* candle lists that are handed over in timestamp order
BacktestPlans ==
    {Stamped(p, [i \in 1..Len(p) |-> i]) :
        p \in UNION {[1..n -> BacktestInputs] : n \in 1..MaxBacktestBars}}

\* candles = sorted(candles, key=lambda c: c.timestamp)
sorted(candles) == SortSeq(candles, LAMBDA a, b : a.timestamp < b.timestamp)

BacktestInit ==
    /\ pc = "backtest"
    /\ bar_no = 0
    /\ candle = MkCandle(100)
    /\ params \in ParamChoices
    /\ engine = NewEngine("paper")
    /\ portfolio = PaperPortfolio
    /\ last_snapshot = NoSnapshot
    /\ orders = <<>>
    /\ trades = <<>>
    /\ signal_rows = <<>>
    /\ risk_events = <<>>
    /\ portfolio_state = EmptyState
    /\ last_signal_type = "None"
    /\ signals = <<>>
    /\ frame = NoFrame
    /\ poll_tick = 0
    /\ bar_log = NewBarLog
    /\ risk_in = NoRiskIn
    /\ risk_out = NoRiskOut
    /\ poll_log = <<>>
    /\ fast = NoFast
    /\ \E plan \in BacktestPlans : backtest = [NoBacktest EXCEPT !.plan = plan]

\* trades.entry_order_id and trades.exit_order_id are ForeignKey("orders.id")
\* with no ON DELETE rule: PostgreSQL refuses a DELETE on orders while a
\* Trades row refers to one of the rows it would delete
OrdersDeleteRefused ==
    \E i \in 1..Len(trades) :
        \/ trades[i].entry_order_id \in 1..Len(orders)
        \/ trades[i].exit_order_id \in 1..Len(orders)

\* run_backtest up to runner.run(candles): the candles are sorted by
\* timestamp; _reset_portfolio_state deletes
\* the Orders rows first, then Trades, Signals, RiskEvents, DailySnapshots
\* and commits; a refused DELETE raises out of run_backtest and the session
\* is closed without a commit.  Then a new strategy, execution engine,
\* OrderManager and StrategyRunner are built.
RunBacktest ==
    /\ pc = "backtest"
    /\ backtest.calls < MaxBacktestCalls
    /\ backtest' = [backtest EXCEPT
            !.calls = @ + 1,
            !.plan = sorted(@),
            !.previous = backtest.result,
            !.result = NoResult,
            !.foreign_rows =
                IF OrdersDeleteRefused THEN @
                ELSE {r \in @ : ~ResetDeletes(r, BacktestTriple)}]
    /\ IF OrdersDeleteRefused
       THEN /\ pc' = "raised"
            /\ UNCHANGED <<orders, trades, signal_rows, risk_events,
                           last_snapshot, engine, last_signal_type, signals,
                           bar_no, bar_log, portfolio_state>>
       ELSE /\ pc' = "next_bar"
            /\ orders' = <<>>
            /\ trades' = <<>>
            /\ signal_rows' = <<>>
            /\ risk_events' = <<>>
            /\ last_snapshot' = NoSnapshot
            /\ engine' = NewEngine("paper")
            /\ last_signal_type' = "None"
            /\ signals' = <<>>
            /\ bar_no' = 0
            /\ bar_log' = NewBarLog
            /\ portfolio_state' = EmptyState
    /\ UNCHANGED <<candle, params, portfolio, frame, poll_tick, risk_in,
                   risk_out, poll_log, fast>>

\* for candle in candles: the next candle of the backtest
BacktestStartBar ==
    /\ bar_no < Len(backtest.plan)
    /\ StartBar
    /\ candle' = MkCandle(backtest.plan[bar_no'].close)

\* the strategy's answer on the candle
BacktestStrategyStep ==
    /\ StrategyStep
    /\ bar_log'.sig = backtest.plan[bar_no].type
    /\ pc' # "raised"

\* all the candles of the backtest are done
BacktestReturn ==
    /\ bar_no = Len(backtest.plan)
    /\ Return

RECURSIVE SumPnl(_)
SumPnl(ts) ==
    IF ts = <<>> THEN R(0)
    ELSE RAdd(MetaGet(ts[1].realized_pnl), SumPnl(Tail(ts)))

\* run_backtest after runner.run: the statistics over the Trades rows of the
\* scope, the BacktestRun row and the BacktestResult
Statistics ==
    /\ pc = "done"
    /\ backtest.calls > 0
    /\ LET closed_trades == SelectSeq(trades, LAMBDA t : ~IsNone(t.realized_pnl))
           total_trades == Len(closed_trades)
           winning_trades ==
               Len(SelectSeq(closed_trades, LAMBDA t : RLt(R(0), t.realized_pnl)))
           realized_pnl == SumPnl(closed_trades)
           initial_equity == MetaGet(portfolio.starting_equity)
       IN  backtest' =
             [backtest EXCEPT
                !.backtest_runs = @ + 1,
                !.result =
                   [present |-> TRUE,
                    signals |-> signals,
                    orders |-> [i \in 1..Len(orders) |->
                                  [side |-> orders[i].side,
                                   bar |-> orders[i].opened_at,
                                   size |-> orders[i].size,
                                   price |-> orders[i].price,
                                   status |-> orders[i].status]],
                    trades |-> [i \in 1..Len(trades) |->
                                  [entry_bar |-> trades[i].opened_at,
                                   exit_bar |-> trades[i].closed_at,
                                   entry_price |-> trades[i].entry_price,
                                   exit_price |-> trades[i].exit_price,
                                   size |-> trades[i].size]],
                    total_trades |-> total_trades,
                    win_rate |-> IF total_trades # 0
                                 THEN Rat(winning_trades, total_trades)
                                 ELSE R(0),
                    final_equity |-> RAdd(initial_equity, realized_pnl)]]
    /\ pc' = "backtest"
    /\ UNCHANGED <<bar_no, candle, params, engine, portfolio, last_snapshot,
                   orders, trades, signal_rows, risk_events, portfolio_state,
                   last_signal_type, signals, frame, poll_tick, bar_log,
                   risk_in, risk_out, poll_log, fast>>

BacktestNext ==
    \/ RunBacktest
    \/ BacktestStartBar
    \/ BacktestStrategyStep
    \/ PollTerminal
    \/ BacktestReturn
    \/ Statistics

BacktestSpec == BacktestInit /\ [][BacktestNext]_vars

\* ------------------------------------------------------------------------
\* A candle list in any order, handed to run_backtest or, as the script
\* strategy_test.py does, to StrategyRunner.run itself
\* ------------------------------------------------------------------------
MaxOrderBars == 2

CandleStamps == {1, 2, 3}

\* candle lists with distinct timestamps in every order
OrderPlans ==
    UNION {{Stamped(p, ts) :
               p \in [1..n -> [close : {100}, type : SignalTypes]],
               ts \in {t \in [1..n -> CandleStamps] :
                          \A i, j \in 1..n : i # j => t[i] # t[j]}} :
           n \in 1..MaxOrderBars}

\* run_backtest(candles) is called, or a script calls runner.run(candles) on
\* the runner it has built
OrderInit ==
    /\ pc \in {"backtest", "next_bar"}
    /\ bar_no = 0
    /\ candle = MkCandle(100)
    /\ params \in ParamChoices
    /\ engine = NewEngine("paper")
    /\ portfolio = PaperPortfolio
    /\ last_snapshot = NoSnapshot
    /\ orders = <<>>
    /\ trades = <<>>
    /\ signal_rows = <<>>
    /\ risk_events = <<>>
    /\ portfolio_state = EmptyState
    /\ last_signal_type = "None"
    /\ signals = <<>>
    /\ frame = NoFrame
    /\ poll_tick = 0
    /\ bar_log = NewBarLog
    /\ risk_in = NoRiskIn
    /\ risk_out = NoRiskOut
    /\ poll_log = <<>>
    /\ fast = NoFast
    /\ \E plan \in OrderPlans : backtest = [NoBacktest EXCEPT !.plan = plan]

OrderNext ==
    \/ RunBacktest
    \/ BacktestStartBar
    \/ BacktestStrategyStep
    \/ PollTerminal
    \/ BacktestReturn
    \/ Statistics

OrderSpec == OrderInit /\ [][OrderNext]_vars

\* ------------------------------------------------------------------------
\* run_backtest on a portfolio, and then on a newly added portfolio with the
\* same candles and a strategy that answers HOLD wherever the first answered
\* None
\* ------------------------------------------------------------------------
HoldForNone(plan) ==
    [i \in 1..Len(plan) |->
        IF plan[i].type = "None" THEN [plan[i] EXCEPT !.type = "hold"]
        ELSE plan[i]]

\* run_backtest up to runner.run(candles) on a portfolio that has no rows
\* yet: the reset finds nothing to delete
FreshRun ==
    /\ pc = "backtest"
    /\ backtest.calls < MaxBacktestCalls
    /\ backtest' = [backtest EXCEPT
                       !.calls = @ + 1,
                       !.plan = IF backtest.calls = 0 THEN @ ELSE HoldForNone(@),
                       !.previous = backtest.result,
                       !.result = NoResult]
    /\ pc' = "next_bar"
    /\ orders' = <<>>
    /\ trades' = <<>>
    /\ signal_rows' = <<>>
    /\ risk_events' = <<>>
    /\ last_snapshot' = NoSnapshot
    /\ engine' = NewEngine("paper")
    /\ last_signal_type' = "None"
    /\ signals' = <<>>
    /\ bar_no' = 0
    /\ bar_log' = NewBarLog
    /\ portfolio_state' = EmptyState
    /\ UNCHANGED <<candle, params, portfolio, frame, poll_tick, risk_in,
                   risk_out, poll_log, fast>>

TwinNext ==
    \/ FreshRun
    \/ BacktestStartBar
    \/ BacktestStrategyStep
    \/ PollTerminal
    \/ BacktestReturn
    \/ Statistics

TwinSpec == BacktestInit /\ [][TwinNext]_vars

\* ------------------------------------------------------------------------
\* Two StrategyRunners on two portfolios, each with its own strategy,
\* OrderManager and simulated engine, whose coroutines the event loop
\* interleaves; before them the first runner's candles are run alone on a
\* portfolio of their own
\* ------------------------------------------------------------------------
MaxPairBars == 2

PairPlans(types) ==
    {Stamped(p, [i \in 1..Len(p) |-> i]) :
        p \in UNION {[1..n -> [close : {100}, type : types]] :
                        n \in 1..MaxPairBars}}

PairInit ==
    /\ pc = "backtest"
    /\ bar_no = 0
    /\ candle = MkCandle(100)
    /\ params \in ParamChoices
    /\ engine = NewEngine("paper")
    /\ portfolio = PaperPortfolio
    /\ last_snapshot = NoSnapshot
    /\ orders = <<>>
    /\ trades = <<>>
    /\ signal_rows = <<>>
    /\ risk_events = <<>>
    /\ portfolio_state = EmptyState
    /\ last_signal_type = "None"
    /\ signals = <<>>
    /\ frame = NoFrame
    /\ poll_tick = 0
    /\ bar_log = NewBarLog
    /\ risk_in = NoRiskIn
    /\ risk_out = NoRiskOut
    /\ poll_log = <<>>
    /\ fast = NoFast
    /\ \E mine \in PairPlans(SignalTypes), theirs \in PairPlans({"enter", "exit"}) :
          backtest = [NoBacktest EXCEPT
                         !.plan = mine,
                         !.other = [NoRunner EXCEPT !.plan = theirs]]

\* the candles of the first runner, run alone
SoloRun == backtest.calls = 0 /\ FreshRun

SoloStatistics == backtest.calls = 1 /\ Statistics

\* both runners are built on portfolios without rows and their run
\* coroutines are started
StartPair ==
    /\ pc = "backtest"
    /\ backtest.calls = 1
    /\ backtest.result.present
    /\ backtest' = [backtest EXCEPT
                       !.calls = 2,
                       !.previous = backtest.result,
                       !.result = NoResult,
                       !.portfolio_id = 1,
                       !.other = NewRunner(2, backtest.other.plan)]
    /\ pc' = "next_bar"
    /\ orders' = <<>>
    /\ trades' = <<>>
    /\ signal_rows' = <<>>
    /\ risk_events' = <<>>
    /\ last_snapshot' = NoSnapshot
    /\ engine' = NewEngine("paper")
    /\ last_signal_type' = "None"
    /\ signals' = <<>>
    /\ bar_no' = 0
    /\ bar_log' = NewBarLog
    /\ portfolio_state' = EmptyState
    /\ UNCHANGED <<candle, params, portfolio, frame, poll_tick, risk_in,
                   risk_out, poll_log, fast>>

\* faulty variant of ResumedSignalType: one debounce state for all runners
ClassWideSignalType(own, current) == current

\* self.last_signal_type is set in __init__ on the instance: the runner that
\* resumes finds the value it left, whatever the other runner has set on
\* its own instance meanwhile
ResumedSignalType(own, current) == own

\* the event loop suspends the running coroutine at an await and resumes the
\* other runner's; every query of the resumed runner is filtered by its
\* portfolio_id or by the primary key of a row it has added
Switch ==
    /\ backtest.other.portfolio_id # 0
    /\ pc # "backtest"
    /\ backtest.other.pc # "done" \/ pc = "done"
    /\ LET o == backtest.other IN
        /\ pc' = o.pc
        /\ bar_no' = o.bar_no
        /\ candle' = o.candle
        /\ engine' = o.engine
        /\ portfolio_state' = o.portfolio_state
        /\ last_signal_type' = ResumedSignalType(o.last_signal_type,
                                                  last_signal_type)
        /\ signals' = o.signals
        /\ frame' = o.frame
        /\ poll_tick' = o.poll_tick
        /\ bar_log' = o.bar_log
        /\ orders' = o.orders
        /\ trades' = o.trades
        /\ signal_rows' = o.signal_rows
        /\ risk_events' = o.risk_events
        /\ last_snapshot' = o.last_snapshot
        /\ backtest' = [backtest EXCEPT
              !.plan = o.plan,
              !.portfolio_id = o.portfolio_id,
              !.other =
                 [portfolio_id |-> backtest.portfolio_id,
                  plan |-> backtest.plan, pc |-> pc, bar_no |-> bar_no,
                  candle |-> candle, engine |-> engine,
                  portfolio_state |-> portfolio_state,
                  last_signal_type |-> last_signal_type,
                  signals |-> signals, frame |-> frame,
                  poll_tick |-> poll_tick, bar_log |-> bar_log,
                  orders |-> orders, trades |-> trades,
                  signal_rows |-> signal_rows, risk_events |-> risk_events,
                  last_snapshot |-> last_snapshot]]
    /\ UNCHANGED <<params, portfolio, risk_in, risk_out, poll_log, fast>>

\* the first runner of the pair has returned: what it leaves on its portfolio
PairStatistics ==
    /\ backtest.calls = 2
    /\ backtest.portfolio_id = 1
    /\ Statistics

PairNext ==
    \/ SoloRun
    \/ SoloStatistics
    \/ StartPair
    \/ Switch
    \/ PairStatistics
    \/ BacktestStartBar
    \/ BacktestStrategyStep
    \/ PollTerminal
    \/ BacktestReturn

PairSpec == PairInit /\ [][PairNext]_vars

\* ------------------------------------------------------------------------
\* The runner on a database whose commits may fail during the finalisation
\* of handle_enter / handle_exit
\* ------------------------------------------------------------------------
\* the commits of a finalisation, in the order they are issued: the one
\* inside DB.record_trade (its own session), the one of session2 that writes
\* the analytics of the exited trade, and the one of the outer session that
\* carries the order's status, price, filled_at and fee (and, for an entry,
\* the new trade's analytics)
FinalizeCommits(kind, res) ==
    IF ~IsFilled(res) THEN <<"session">>
    ELSE IF kind = "enter" THEN <<"record_trade", "session">>
    ELSE <<"record_trade", "session2", "session">>

\* the Trades rows that are committed when the k-th commit of the
\* finalisation raises: every earlier commit stays, the failing one is
\* rolled back or dropped when its session is closed
TradesCommitted(fr, db_order, res, k) ==
    IF k = 1 THEN trades
    ELSE IF fr.kind = "enter"
    THEN record_trade(trades,
                      [EntryTrade(db_order, res, fr.volatility)
                          EXCEPT !.analytics = NoAnalytics])
    ELSE IF k = 2
    THEN record_trade(trades, ExitTrade(fr.trade, db_order, res, fr.reason))
    ELSE TradesAfterExit(fr.trade, db_order, res, fr.reason)

\* the poll that ends the loop, and a finalisation one of whose commits
\* raises: the exception leaves handle_enter / handle_exit and run; the
\* outer session is closed without a commit, so the Orders row keeps what
\* the submit step committed
FinalizeFails ==
    /\ pc = "poll"
    /\ LET order == orders[frame.order_id] IN
       \E res \in PollAnswers(engine, order) :
        LET db_order == FinalizedOrder(order, res, bar_no) IN
        \E k \in 1..Len(FinalizeCommits(frame.kind, res)) :
            /\ engine' = EngineAfterPoll(engine, order, res)
            /\ trades' = TradesCommitted(frame, db_order, res, k)
            /\ bar_log' = [bar_log EXCEPT
                              !.last_poll = [kind |-> frame.kind,
                                             order_id |-> frame.order_id,
                                             status |-> res.status]]
    /\ pc' = "raised"
    /\ UNCHANGED <<fast, backtest>>
    /\ UNCHANGED <<bar_no, candle, params, portfolio, last_snapshot, orders,
                   signal_rows, risk_events, portfolio_state, last_signal_type,
                   signals, frame, poll_tick, risk_in, risk_out, poll_log>>

FaultNext == Next \/ FinalizeFails

FaultSpec == Init /\ [][FaultNext]_vars

\* ------------------------------------------------------------------------
\* The rolling buffers of the advanced strategies
\* ------------------------------------------------------------------------
MaxLookback == 3
MaxHistory == 4
MaxStrategyBars == 4

\* max_history defaults to lookback * 4 (MeanReversionStrategy,
\* BreakoutStrategy) or lookback * 2 (SupportResistanceStrategy)
HistoryFactor(kind) == IF kind = "support_resistance" THEN 2 ELSE 4

\* the strategy as __init__ leaves it; max_history = -1 stands for a params
\* dict without the key.  lookback >= 1 and max_history >= 0 are the values
\* that raise nothing: deque(maxlen=...) refuses a negative number only
NewStrategy(kind, lookback, max_history) ==
    [kind |-> kind, lookback |-> lookback,
     maxlen |-> IF max_history = -1 THEN lookback * HistoryFactor(kind)
                ELSE max_history,
     closes |-> <<>>, last_signal |-> "None"]

\* deque.append on a deque built with maxlen
DequeAppend(buf, x, maxlen) ==
    IF maxlen = 0 THEN <<>>
    ELSE IF Len(buf) = maxlen THEN Append(Tail(buf), x)
    ELSE Append(buf, x)

\* len(self.closes) >= self.lookback
HasEnoughData(strategy) == Len(strategy.closes) >= strategy.lookback

StrategyInit ==
    /\ IdleRunnerState
    /\ engine = NewEngine("paper")
    /\ poll_log = <<>>
    /\ risk_in = NoRiskIn
    /\ risk_out = NoRiskOut
    /\ backtest = NoBacktest
    /\ \E kind \in {"mean_reversion", "breakout", "support_resistance"},
          lookback \in 1..MaxLookback, max_history \in -1..MaxHistory :
          fast = [NoFast EXCEPT
                     !.strategy = NewStrategy(kind, lookback, max_history)]

\* sma(values, window): the mean of the last `window` values
RECURSIVE SumSeq(_)
SumSeq(vs) == IF vs = <<>> THEN 0 ELSE vs[1] + SumSeq(Tail(vs))

sma(values, window) ==
    Rat(SumSeq(SubSeq(values, Len(values) - window + 1, Len(values))), window)

\* MeanReversionStrategy._update_indicators: (close - mean) / mean
Deviation(strategy) ==
    LET mean == sma(strategy.closes, strategy.lookback)
    IN  RDiv(RSub(R(Last(strategy.closes)), mean), mean)

\* threshold_pct, by default
ThresholdPct == Rat(1, 100)

\* MeanReversionStrategy.should_enter, self.closes.append(close) done
EnterRule(strategy) ==
    HasEnoughData(strategy) /\ RLt(Deviation(strategy), RNeg(ThresholdPct))

\* MeanReversionStrategy.should_exit, self.closes.append(close) done
ExitRule(strategy) ==
    /\ HasEnoughData(strategy)
    /\ RLe(RNeg(RMul(ThresholdPct, Rat(1, 4))), Deviation(strategy))

\* Strategy.generate_signal of a should_enter / should_exit strategy:
\* should_enter appends the close and tests its rule; only if it says no,
\* should_exit is called, which appends the close as well and tests its own
GenerateSignal ==
    /\ fast.strategy.kind = "mean_reversion"
    /\ fast.bar < MaxStrategyBars
    /\ \E c \in ClosePrices :
        LET st == fast.strategy
            entered == [st EXCEPT !.closes = DequeAppend(@, c, st.maxlen)]
            exited == [entered EXCEPT !.closes = DequeAppend(@, c, st.maxlen)]
        IN  fast' = [fast EXCEPT
                        !.bar = @ + 1,
                        !.strategy =
                            IF EnterRule(entered)
                            THEN [entered EXCEPT !.last_signal = "enter"]
                            ELSE IF ExitRule(exited)
                            THEN [exited EXCEPT !.last_signal = "exit"]
                            ELSE [exited EXCEPT !.last_signal = "hold"]]
    /\ UNCHANGED backtest
    /\ UNCHANGED <<pc, bar_no, candle, params, engine, portfolio, last_snapshot,
                   orders, trades, signal_rows, risk_events, portfolio_state,
                   last_signal_type, signals, frame, poll_tick, bar_log,
                   risk_in, risk_out, poll_log>>

\* an on_bar strategy is given the next candle: the close goes into the
\* buffer (highs and lows go into deques of the same maxlen)
OnBar ==
    /\ fast.strategy.kind \in {"breakout", "support_resistance"}
    /\ fast.bar < MaxStrategyBars
    /\ \E c \in ClosePrices :
          fast' = [fast EXCEPT
                      !.bar = @ + 1,
                      !.strategy.closes =
                          DequeAppend(@, c, fast.strategy.maxlen)]
    /\ UNCHANGED backtest
    /\ UNCHANGED <<pc, bar_no, candle, params, engine, portfolio, last_snapshot,
                   orders, trades, signal_rows, risk_events, portfolio_state,
                   last_signal_type, signals, frame, poll_tick, bar_log,
                   risk_in, risk_out, poll_log>>

StrategyNext == OnBar \/ GenerateSignal

StrategySpec == StrategyInit /\ [][StrategyNext]_vars

\* ------------------------------------------------------------------------
\* The runner on a portfolio in which another OrderManager, trading another
\* asset or another strategy-config, has left an open trade
\* ------------------------------------------------------------------------
\* Trades rows are recorded with the asset_id and strategy_config_id of the
\* OrderManager that writes them (1 and 1 for the runner's own manager)
OtherScopes ==
    {[asset_id |-> 2, strategy_config_id |-> 1],
     [asset_id |-> 1, strategy_config_id |-> 2]}

OtherOpenTrade(scope) ==
    [AutoOpenTrade(R(100)) EXCEPT
        !.asset_id = scope.asset_id,
        !.strategy_config_id = scope.strategy_config_id]

SharedInit ==
    /\ pc = "next_bar"
    /\ bar_no = 0
    /\ candle = MkCandle(100)
    /\ params \in ParamChoices
    /\ engine = NewEngine("paper")
    /\ portfolio = PaperPortfolio
    /\ last_snapshot = NoSnapshot
    /\ orders = <<AutoEntryOrder(R(100))>>
    /\ \E scope \in OtherScopes : trades = <<OtherOpenTrade(scope)>>
    /\ signal_rows = <<>>
    /\ risk_events = <<>>
    /\ portfolio_state = EmptyState
    /\ last_signal_type = "None"
    /\ signals = <<>>
    /\ frame = NoFrame
    /\ poll_tick = 0
    /\ bar_log = NewBarLog
    /\ risk_in = NoRiskIn
    /\ risk_out = NoRiskOut
    /\ poll_log = <<>>
    /\ fast = NoFast
    /\ backtest = NoBacktest

SharedSpec == SharedInit /\ [][Next]_vars

\* ------------------------------------------------------------------------
\* Properties
\* ------------------------------------------------------------------------
Indices(s) == 1..Len(s)

\* |x - ref| is at most pct percent of ref
WithinPct(x, ref, pct) ==
    RLe(RMul(RAbs(RSub(x, ref)), R(100)), RMul(pct, ref))

\* the strategy has answered on the current candle, with the same type as on
\* the candle before
RepeatedSignal ==
    /\ bar_log.sig # "None"
    /\ bar_log.sig = bar_log.prev_sig

\* C1: when the strategy emits, on consecutive candles, signals of the same
\* type, the later one is dropped before anything is done with it: no
\* Signals row is written for it, the risk gate is not evaluated, neither
\* handle_enter nor handle_exit is called and no order is added; the one
\* signal of that type that was acted upon is the last Signals row.
C1_Debounce ==
    RepeatedSignal =>
        /\ Len(signal_rows) = bar_log.signal_rows_at_start
        /\ ~bar_log.risk_evaluated
        /\ ~bar_log.enter_called
        /\ ~bar_log.exit_called
        /\ Len(orders) = bar_log.orders_before_signal
        /\ signal_rows # <<>>
        /\ Last(signal_rows).signal_type = bar_log.sig
        /\ pc # "raised"

C1_Witness ==
    /\ RepeatedSignal
    /\ bar_log.sig = "enter"
    /\ pc = "next_bar"

\* C2: between candles a portfolio has at most one open trade.
C2_AtMostOneOpenTrade ==
    pc \in {"next_bar", "done"} => Len(OpenTrades(trades)) <= 1

FilledOrders(side) ==
    {i \in Indices(orders) : orders[i].side = side /\ orders[i].status = "FILLED"}

\* C3: once an exit order is FILLED, the trade handle_exit was called for
\* carries that order as its exit order, has an exit price, a realised
\* profit and a closing time, and is no longer open.
C3_ExitClosesTheTrade ==
    \A i \in FilledOrders("sell") :
        LET t == trades[TradeIndex(orders[i].trade_id)] IN
        /\ t.exit_order_id = orders[i].id
        /\ ~IsNone(t.exit_price)
        /\ ~IsNone(t.realized_pnl)
        /\ t.closed_at # 0
        /\ \A k \in Indices(OpenTrades(trades)) :
               OpenTrades(trades)[k].id # orders[i].trade_id

\* C4: every FILLED entry order has exactly one Trades row, and every Trades
\* row belongs to a FILLED entry order of its own.
C4_OneTradePerFilledEntry ==
    /\ \A i \in FilledOrders("buy") :
           Cardinality({j \in Indices(trades) :
                           trades[j].entry_order_id = orders[i].id}) = 1
    /\ Len(trades) = Cardinality(FilledOrders("buy"))

\* handle_enter was called on this candle with a quote further than
\* max_slippage_pct percent from the signal price (the candle's close)
EnterBlockedBySlippage ==
    /\ bar_log.enter_called
    /\ ~IsNone(bar_log.enter_preview)
    /\ ~WithinPct(bar_log.enter_preview, candle.close, params.max_slippage_pct)

\* C5: a call of handle_enter whose previewed price is further than
\* max_slippage_pct percent from the signal price submits nothing to the
\* backend, adds no Orders row and no Trades row, and returns without polling.
C5_SlippageRejection ==
    EnterBlockedBySlippage =>
        /\ Len(orders) = bar_log.orders_before_signal
        /\ Len(engine.orders) = bar_log.submits_before_signal
        /\ frame = NoFrame
        /\ pc \in {"next_bar", "done"}
        /\ bar_log.last_poll.kind # "enter"

C5_Witness ==
    /\ EnterBlockedBySlippage
    /\ candle.close = R(100)
    /\ bar_log.enter_preview = R(102)
    /\ params.max_slippage_pct = R(1)

\* C6: the limit price of every order handed to a backend is within
\* max_slippage_pct percent of the signal price of the call that submitted
\* it, and with the simulated backend so are the entry price and the exit
\* price of every trade.
C6_PricesWithinSlippage ==
    /\ \A i \in Indices(engine.orders) :
           /\ i <= Len(orders)
           /\ WithinPct(engine.orders[i].price, orders[i].signal_price,
                        params.max_slippage_pct)
    /\ engine.kind = "paper" =>
           \A j \in Indices(trades) :
               /\ WithinPct(trades[j].entry_price,
                            orders[trades[j].entry_order_id].signal_price,
                            params.max_slippage_pct)
               /\ trades[j].exit_order_id # 0 =>
                      WithinPct(trades[j].exit_price,
                                orders[trades[j].exit_order_id].signal_price,
                                params.max_slippage_pct)

C6_Witness ==
    /\ engine.kind = "paper"
    /\ \E j \in Indices(trades) :
           /\ trades[j].exit_order_id # 0
           /\ trades[j].exit_price # trades[j].entry_price

\* the step that ends a poll loop on a CANCELLED or REJECTED result
UnfilledTerminalStep ==
    /\ pc = "poll"
    /\ pc' # "poll"
    /\ bar_log'.last_poll.status \in {"CANCELLED", "REJECTED"}

\* C7: when an order ends CANCELLED or REJECTED its Orders row stays, with
\* that status; no Trades row is added or changed (after an entry there is no
\* trade for the order, after an exit the trade is still open); and the run
\* goes on with what follows the call.
C7_UnfilledOrder ==
    [][UnfilledTerminalStep =>
          /\ Len(orders') = Len(orders)
          /\ orders'[frame.order_id].status = bar_log'.last_poll.status
          /\ trades' = trades
          /\ \A j \in Indices(trades') :
                 /\ trades'[j].entry_order_id # frame.order_id
                 /\ trades'[j].exit_order_id # frame.order_id
          /\ frame.kind = "exit" =>
                 \E k \in Indices(OpenTrades(trades')) :
                     OpenTrades(trades')[k].id = frame.trade.id
          /\ pc' = frame.resume
          /\ pc' \in {"strategy", "next_bar"}]_vars

C7_Witness ==
    /\ bar_log.last_poll.kind = "exit"
    /\ bar_log.last_poll.status = "CANCELLED"
    /\ pc = "next_bar"

\* every recorded poll of an order reports it FILLED in full, at the limit
\* price it was submitted with, for a fee of fee_bps basis points of the
\* notional; all polls of an order report the same
PollsReportFilled ==
    \A i \in Indices(poll_log) :
        \A k \in Indices(poll_log[i]) :
            LET res == poll_log[i][k]
                o == engine.orders[i]
            IN  /\ res.exchange_order_id = o.id
                /\ res.status = "FILLED"
                /\ res.filled_size = o.size
                /\ ~IsNone(o.price) => res.avg_fill_price = o.price
                /\ res.fee = RMul(RAbs(RMul(res.avg_fill_price, o.size)),
                                  Rat(FeeBps, 10000))
                /\ res = poll_log[i][1]
                /\ o.status = "FILLED"

FilledStaysFilled ==
    \A i \in Indices(engine.orders) :
        engine.orders[i].status = "FILLED" =>
            /\ i <= Len(engine'.orders)
            /\ engine'.orders[i].status = "FILLED"

\* C8: with the simulated engine every poll of an id that submit returned
\* reports FILLED, the submitted size, the submitted limit price and a fee of
\* |price * size| * fee_bps / 10000; polling again reports the same, and an
\* order that is FILLED stays FILLED.
C8_SimulatedFill ==
    [](PollsReportFilled) /\ [][FilledStaysFilled]_vars

C8_Witness ==
    \E i \in Indices(poll_log) :
        /\ Len(poll_log[i]) = 2
        /\ ~IsNone(engine.orders[i].price)
        /\ Len(engine.orders) > i

\* C9: every poll loop ends: handle_enter and handle_exit always return.
C9_PollLoopEnds ==
    (pc = "poll") ~> (pc # "poll")

\* C10: a RiskCheckResult names a veto reason exactly when it does not allow
\* the entry, and carries a size exactly when it allows it.
C10_RiskResultWellFormed ==
    risk_out.called =>
        /\ (risk_out.result.veto_reason # "None") <=> ~risk_out.result.allow
        /\ ~IsNone(risk_out.result.size) <=> risk_out.result.allow

C10_Witness ==
    /\ risk_out.called
    /\ ~risk_out.result.allow
    /\ risk_out.result.veto_reason = "Max trades per day reached."

\* evaluate_entry was called with a portfolio and an equity basis
RiskEvaluated ==
    /\ risk_out.called
    /\ risk_in.state.portfolio.present
    /\ ~IsNone(EquityBasis(risk_in.state))

\* the day's realised profit is known and is at most -(equity * max daily loss)
DailyLossAtLimit ==
    /\ risk_in.state.last_snapshot.present
    /\ ~IsNone(risk_in.state.last_snapshot.realized_pnl)
    /\ RLe(risk_in.state.last_snapshot.realized_pnl,
           RNeg(RMul(EquityBasis(risk_in.state), risk_in.params.max_daily_loss_pct)))

\* C11: evaluate_entry vetoes with the daily-loss reason whenever the day's
\* realised profit is at most -(equity * max_daily_loss_pct), equality
\* included, also when the open-trades cap is reached as well; otherwise it
\* vetoes exactly when the number of open trades is at least
\* max_trades_per_day.
C11_DailyLossThenTradeCap ==
    RiskEvaluated =>
        IF DailyLossAtLimit
        THEN risk_out.result.veto_reason = "Daily loss exceeded"
        ELSE ~risk_out.result.allow
                <=> Len(risk_in.state.open_trades) >= risk_in.params.max_trades_per_day

\* run called handle_enter for the current candle's ENTER: the risk manager
\* allowed it
EnterAllowed ==
    /\ bar_log.sig = "enter"
    /\ bar_log.enter_called

\* the Orders rows added since the current candle's signal was taken up
OrdersOfSignal ==
    {i \in Indices(orders) : i > bar_log.orders_before_signal}

\* C12: for every ENTER the risk manager allows, the recommended size is
\* positive and size * close = equity basis * max_risk_pct (the equity basis
\* being the last snapshot's ending equity, else the portfolio's starting
\* equity), and the order handle_enter adds for the signal has this size.
C12_RecommendedSize ==
    EnterAllowed =>
        /\ RLt(R(0), bar_log.risk_size)
        /\ RMul(bar_log.risk_size, candle.close)
               = RMul(IF portfolio_state.last_snapshot.present
                      THEN portfolio_state.last_snapshot.ending_equity
                      ELSE portfolio_state.portfolio.starting_equity,
                      params.max_risk_pct)
        /\ \A i \in OrdersOfSignal :
               orders[i].side = "buy" /\ orders[i].size = bar_log.risk_size
        /\ pc \in {"next_bar", "done"} => OrdersOfSignal # {}

\* the stop-loss and take-profit conditions for the trade check_auto_exits
\* looks at and the current candle
StopLossHit ==
    LET e == portfolio_state.open_trades[1].entry_price IN
    /\ RLt(R(0), params.stop_loss_pct)
    /\ RLe(RMul(candle.close, R(100)),
           RMul(e, RSub(R(100), params.stop_loss_pct)))

TakeProfitHit ==
    LET e == portfolio_state.open_trades[1].entry_price IN
    /\ RLt(R(0), params.take_profit_pct)
    /\ RLe(RMul(e, RAdd(R(100), params.take_profit_pct)),
           RMul(candle.close, R(100)))

\* handle_exit has been called for the trade with this reason: its sell
\* order is being polled, or the closing Trades row carries the reason
AutoExitCalledWith(reason) ==
    /\ Len(orders) = 2
    /\ orders[2].side = "sell"
    /\ orders[2].trade_id = portfolio_state.open_trades[1].id
    /\ IF pc = "poll"
       THEN frame.kind = "exit" /\ frame.reason = reason
       ELSE \E j \in Indices(trades) :
               trades[j].exit_order_id = 2 /\ trades[j].exit_reason = reason

\* C13: check_auto_exits calls handle_exit with reason stop_loss exactly when
\* stop_loss_pct > 0 and close <= entry * (1 - stop_loss_pct / 100);
\* otherwise with reason take_profit exactly when take_profit_pct > 0 and
\* close >= entry * (1 + take_profit_pct / 100); otherwise it does nothing
\* and the trade stays open.  It never creates more than one exit order.
C13_AutoExit ==
    pc # "auto" =>
        /\ Len(orders) <= 2
        /\ IF StopLossHit THEN AutoExitCalledWith("stop_loss")
           ELSE IF TakeProfitHit THEN AutoExitCalledWith("take_profit")
           ELSE /\ Len(orders) = 1
                /\ pc = "done"
                /\ trades = <<portfolio_state.open_trades[1]>>
                /\ trades[1].closed_at = 0

C13_Witness ==
    /\ pc = "done"
    /\ portfolio_state.open_trades[1].entry_price = R(100)
    /\ params.stop_loss_pct = R(2)
    /\ params.take_profit_pct = R(4)
    /\ candle.close = R(98)
    /\ AutoExitCalledWith("stop_loss")

\* C14: on one candle at most one exit order is created for a trade: when
\* check_auto_exits has fired, the strategy's EXIT of the same candle creates
\* no second one.
C14_OneExitOrderPerCandle ==
    \A i, j \in Indices(orders) :
        (/\ i < j
         /\ orders[i].side = "sell"
         /\ orders[j].side = "sell"
         /\ orders[i].trade_id = orders[j].trade_id)
            => orders[i].opened_at # orders[j].opened_at

\* the Trades rows that carry tracking figures
TrackedRows == {j \in Indices(trades) : ~IsNone(trades[j].analytics.mfe)}

TrackingInRange ==
    \A j \in TrackedRows :
        LET a == trades[j].analytics IN
        /\ RLe(R(0), a.mfe)
        /\ RLe(a.mae, R(0))
        /\ a.max_runup_pct = a.mfe
        /\ a.max_drawdown_pct = a.mae

TrackingMonotonic ==
    \A j \in TrackedRows :
        /\ j <= Len(trades')
        /\ ~IsNone(trades'[j].analytics.mfe)
        /\ RLe(trades[j].analytics.mfe, trades'[j].analytics.mfe)
        /\ RLe(trades'[j].analytics.mae, trades[j].analytics.mae)

\* C15: over any sequence of candles the stored mfe of a trade never
\* decreases and its stored mae never increases; mfe >= 0 >= mae, and
\* max_runup_pct = mfe and max_drawdown_pct = mae at all times.
C15_TrackingMonotonic ==
    [](TrackingInRange) /\ [][TrackingMonotonic]_vars

C15_Witness ==
    \E j \in TrackedRows :
        /\ RLt(R(0), trades[j].analytics.mfe)
        /\ RLt(trades[j].analytics.mae, R(0))
        /\ trades[j].analytics.exit_trigger # "None"

\* the Trades rows recorded for a filled exit
ClosedRows == {j \in Indices(trades) : trades[j].exit_order_id # 0}

\* C16: the trade recorded for an entry filled at price e with size s and an
\* exit filled at price x has realized_pnl = (x - e) * s and
\* realized_pnl_pct = realized_pnl / (e * s), and its exit_reason is the
\* trigger of the exit: stop_loss, take_profit, or exit_signal for the
\* strategy's EXIT.
C16_RealizedPnl ==
    \A j \in ClosedRows :
        LET t == trades[j]
            entry == orders[t.entry_order_id]
            exit == orders[t.exit_order_id]
            e == entry.price
            s == entry.size
            x == exit.price
        IN  /\ entry.side = "buy" /\ entry.status = "FILLED"
            /\ exit.side = "sell" /\ exit.status = "FILLED"
            /\ t.entry_price = e /\ t.size = s /\ t.exit_price = x
            /\ t.realized_pnl = RMul(RSub(x, e), s)
            /\ RMul(t.realized_pnl_pct, RMul(e, s)) = t.realized_pnl
            /\ t.exit_reason = IF exit.auto_reason = "None" THEN "exit_signal"
                               ELSE exit.auto_reason
            /\ t.exit_reason \in {"exit_signal", "stop_loss", "take_profit"}

C16_Witness ==
    \E j \in ClosedRows :
        /\ trades[j].entry_price = R(101)
        /\ trades[j].exit_price = Rat(10706, 100)
        /\ trades[j].size = R(2)
        /\ trades[j].realized_pnl = Rat(1212, 100)
        /\ trades[j].realized_pnl_pct = Rat(6, 100)
        /\ trades[j].exit_reason = "exit_signal"

\* run has finished with the current candle's signal, an ENTER it took to the
\* risk manager or an EXIT for which there was an open trade
SignalTakenUp ==
    /\ pc \in {"next_bar", "done"}
    /\ \/ bar_log.risk_evaluated
       \/ bar_log.exit_called /\ portfolio_state.open_trades # <<>>

VetoRecorded ==
    /\ bar_log.risk_evaluated
    /\ ~bar_log.enter_called
    /\ risk_events # <<>>
    /\ Last(risk_events).event_type = "EntryVeto"

\* C17: whatever becomes of an ENTER or EXIT that run takes up (veto,
\* slippage rejection, non-positive size, CANCELLED, REJECTED or a fill), when
\* run goes on to the next candle there is a RiskEvents row for the veto or
\* an Orders row for the signal; otherwise an error was raised.
C17_NoSilentDrop ==
    SignalTakenUp => (VetoRecorded \/ OrdersOfSignal # {})

\* the step in which run deals with a HOLD from the strategy
HoldStep ==
    /\ pc = "strategy"
    /\ bar_log'.sig = "hold"

\* C20: a HOLD triggers no lifecycle action: the risk manager is not
\* evaluated, handle_enter and handle_exit are not called, nothing is
\* submitted, and no Orders, Trades or RiskEvents row is added or changed.
C20_HoldDoesNothing ==
    [][HoldStep =>
          /\ ~bar_log'.risk_evaluated
          /\ ~bar_log'.enter_called
          /\ ~bar_log'.exit_called
          /\ orders' = orders
          /\ trades' = trades
          /\ risk_events' = risk_events
          /\ engine' = engine
          /\ frame' = frame
          /\ pc' # "poll"]_vars

C20_Witness ==
    /\ bar_log.sig = "hold"
    /\ Len(signal_rows) = bar_log.signal_rows_at_start + 1
    /\ Last(signal_rows).signal_type = "hold"
    /\ OpenTrades(trades) # <<>>
    /\ pc = "next_bar"

\* candle numbers of the filled orders of one side, in the order placed
FilledBars(side) ==
    LET filled == SelectSeq(orders, LAMBDA o : o.side = side /\ o.status = "FILLED")
    IN  [i \in 1..Len(filled) |-> filled[i].opened_at]

\* candle numbers at which the fast engine entered and exited
FastEntryBars ==
    [i \in 1..Len(fast.trades) |-> fast.trades[i].entry_time]
        \o (IF fast.open_trade = NoFastTrade THEN <<>>
            ELSE <<fast.open_trade.entry_time>>)

FastExitBars == [i \in 1..Len(fast.trades) |-> fast.trades[i].exit_time]

\* both engines have finished the same candles
BothBetweenCandles == pc \in {"next_bar", "done"} /\ FastCaughtUp

\* C18: on the same strategy outputs, parameters and candles the runner with
\* the simulated backend and the fast engine enter on the same candles, exit
\* on the same candles and so make the same number of trades.
C18_EnginesAgree ==
    BothBetweenCandles =>
        /\ FilledBars("buy") = FastEntryBars
        /\ FilledBars("sell") = FastExitBars

\* a call of run_backtest after the first has failed
RerunRaised == backtest.calls >= 2 /\ pc = "raised"

\* a call of run_backtest after the first has returned its result
RerunReturned == backtest.calls >= 2 /\ backtest.result.present

\* the runner of a call is about to take its first candle
RunStarts == backtest.calls >= 1 /\ pc = "next_bar" /\ bar_no = 0

\* C19: run_backtest called again with reset_portfolio_state on the same
\* portfolio, asset, strategy config, parameters and candles returns as the
\* call before it did, with the same signals, the same trades (candles,
\* prices, sizes) and the same total_trades, win_rate and final_equity; and
\* the runner of every call starts on empty Orders, Trades, Signals and
\* RiskEvents tables and without a daily snapshot.
C19_ReproducibleRerun ==
    /\ ~RerunRaised
    /\ RerunReturned => backtest.result = backtest.previous
    /\ RunStarts =>
          /\ orders = <<>>
          /\ trades = <<>>
          /\ signal_rows = <<>>
          /\ risk_events = <<>>
          /\ last_snapshot = NoSnapshot

\* the open trade of the loaded state carries the current candle in its
\* tracking figures, in the state object and in its Trades row
TrackedThisCandle ==
    portfolio_state.open_trades # <<>> =>
        LET t == portfolio_state.open_trades[1]
            pct_change == RDiv(RSub(candle.close, t.entry_price), t.entry_price)
            row == trades[TradeIndex(t.id)]
        IN  /\ RLe(t.analytics.mae, pct_change)
            /\ RLe(pct_change, t.analytics.mfe)
            /\ row.analytics.mfe = t.analytics.mfe
            /\ row.analytics.mae = t.analytics.mae

\* check_auto_exits has looked at the current candle and the loaded state,
\* and has placed its exit order if a trigger was hit
AutoExitsChecked ==
    /\ bar_log.auto_exit = AutoExitReason(candle, portfolio_state, params)
    /\ bar_log.auto_exit # "None" <=>
          \E i \in Indices(orders) :
              /\ i > bar_log.orders_at_start
              /\ orders[i].side = "sell"
              /\ orders[i].opened_at = bar_no
              /\ orders[i].auto_reason = bar_log.auto_exit
              /\ orders[i].status = "FILLED"

\* the strategy is about to be asked for the signal of the current candle
BeforeSignal == pc = "strategy"

\* the state is loaded on the step that takes the next candle, and nowhere
\* else; the strategy has not been asked yet on that step
LoadedOncePerBar ==
    /\ portfolio_state' # portfolio_state => bar_no' = bar_no + 1
    /\ bar_no' # bar_no =>
          /\ bar_no' = bar_no + 1
          /\ pc' \in {"strategy", "poll"}
          /\ bar_log'.sig = "None"
          /\ signals' = signals
    /\ bar_log'.sig # bar_log.sig /\ bar_no' = bar_no => BeforeSignal

\* C21: on every candle the portfolio state is loaded once, then the trade
\* tracking runs, then check_auto_exits, and only then is the strategy asked;
\* this holds whatever the strategy then answers (nothing, a repeated signal
\* or a new one).
C21_BarPrologue ==
    [](BeforeSignal => TrackedThisCandle /\ AutoExitsChecked)
        /\ [][LoadedOncePerBar]_vars

C21_Witness ==
    /\ pc = "next_bar"
    /\ bar_log.sig = "None"
    /\ bar_log.auto_exit = "stop_loss"
    /\ portfolio_state.open_trades # <<>>
    /\ RLt(portfolio_state.open_trades[1].analytics.mae, R(0))

\* the trades check_auto_exits closed on the current candle: those of its
\* filled exit orders
AutoExitedTrades ==
    {orders[i].trade_id : i \in {j \in Indices(orders) :
                                    /\ j > bar_log.orders_at_start
                                    /\ orders[j].side = "sell"
                                    /\ orders[j].auto_reason # "None"
                                    /\ orders[j].status = "FILLED"}}

\* C22: when check_auto_exits has closed a trade on a candle, the state the
\* strategy and the risk manager are given for that candle no longer lists
\* that trade as open.
C22_StateAfterAutoExit ==
    BeforeSignal =>
        \A k \in Indices(portfolio_state.open_trades) :
            portfolio_state.open_trades[k].id \notin AutoExitedTrades

\* the step in which run takes up an ENTER and the risk manager vetoes it
VetoStep ==
    /\ pc = "strategy"
    /\ bar_log'.sig = "enter"
    /\ bar_log'.risk_evaluated
    /\ ~bar_log'.enter_called

\* C23: when evaluate_entry vetoes an ENTER, run adds exactly one RiskEvents
\* row, of type EntryVeto and with the veto reason, does not call
\* handle_enter, adds no Orders row and goes on with the next candle.
C23_VetoRecorded ==
    [][VetoStep =>
          /\ Len(risk_events') = Len(risk_events) + 1
          /\ Last(risk_events').event_type = "EntryVeto"
          /\ Last(risk_events').text =
                evaluate_entry(candle, portfolio_state, params).veto_reason
          /\ orders' = orders
          /\ engine' = engine
          /\ trades' = trades
          /\ pc' = "next_bar"]_vars

\* C24: every signal that passes the debounce is written as one Signals row
\* before the risk manager or the OrderManager is called for it, whatever
\* they then do with it; the Signals rows written by run are as many as the
\* signals it has collected to return.
C24_SignalPersisted ==
    /\ Len(signal_rows) = Len(signals)
    /\ \A i \in Indices(signal_rows) : signal_rows[i].signal_type = signals[i]
    /\ (bar_log.risk_evaluated \/ bar_log.enter_called \/ bar_log.exit_called) =>
          /\ Len(signal_rows) = bar_log.signal_rows_at_start + 1
          /\ Last(signal_rows).signal_type = bar_log.sig
          /\ Last(signal_rows).timestamp = bar_no

\* the strategy returned None on the candle just finished
NoSignalBar ==
    /\ pc = "next_bar"
    /\ bar_no > 0
    /\ bar_log.sig = "None"

\* C25: a candle on which the strategy returns None leaves no Signals row,
\* no order and no trade of its own, and the run as a whole has the orders
\* and trades of the run in which the strategy answers HOLD on those
\* candles instead.
C25_NoneIsHold ==
    /\ NoSignalBar =>
          /\ Len(signal_rows) = bar_log.signal_rows_at_start
          /\ Len(orders) = bar_log.orders_before_signal
          /\ ~bar_log.risk_evaluated
          /\ ~bar_log.enter_called
          /\ ~bar_log.exit_called
    /\ RerunReturned =>
          /\ backtest.result.orders = backtest.previous.orders
          /\ backtest.result.trades = backtest.previous.trades

\* the limit the side-aware rule gives: a buy is capped above the signal when
\* the preview is at or above it, a sell is floored below the signal when the
\* preview is at or below it
SideAwareLimit(side, signal_price, preview_price, max_slip_pct) ==
    LET up == RMul(signal_price, RAdd(R(1), RDiv(max_slip_pct, R(100))))
        down == RMul(signal_price, RSub(R(1), RDiv(max_slip_pct, R(100))))
    IN  IF side = "buy"
        THEN IF RLe(signal_price, preview_price) THEN up ELSE down
        ELSE IF RLe(preview_price, signal_price) THEN down ELSE up

\* C26: every order is submitted with the limit of the side-aware rule; the
\* simulated backend quotes no price, so the preview of every order equals
\* its signal price: a buy carries signal * (1 + max_slippage_pct/100) and a
\* sell carries the floor signal * (1 - max_slippage_pct/100), never a limit
\* above the signal price.
C26_SideAwareLimit ==
    engine.kind = "paper" =>
        \A i \in Indices(orders) :
            /\ orders[i].limit_price =
                   SideAwareLimit(orders[i].side, orders[i].signal_price,
                                  orders[i].signal_price,
                                  params.max_slippage_pct)
            /\ orders[i].side = "sell" =>
                   RLe(orders[i].limit_price, orders[i].signal_price)

\* the rows of other assets, other strategy-configs and other portfolios
\* that a reset has deleted
ForeignRowsDeleted == ForeignRows \ backtest.foreign_rows

\* C27: _reset_portfolio_state deletes only rows of its (portfolio, asset,
\* strategy-config) triple: every Orders, Trades, Signals, RiskEvents and
\* DailySnapshots row of another asset or another strategy-config of the
\* portfolio, and every row of another portfolio, is still there after it.
C27_ResetScopedToTriple == ForeignRowsDeleted = {}

\* the timestamps of the candles the strategy has been called with, in the
\* order of the calls
StampsFed ==
    LET n == IF pc = "strategy" THEN bar_no - 1 ELSE bar_no
    IN  [i \in 1..n |-> backtest.plan[i].timestamp]

\* C28: whatever the order of the candle list, through run_backtest and
\* through StrategyRunner.run alike, the candles reach the strategy in
\* ascending timestamp order.
C28_BarsAscending ==
    \A i, j \in 1..Len(StampsFed) : i < j => StampsFed[i] < StampsFed[j]

\* Trades row i records a filled exit
ClosingRow(i) == trades[i].exit_order_id # 0 /\ ~IsNone(trades[i].realized_pnl)

\* the first closing row of its entry order: one per round trip
FirstClosingRow(i) ==
    /\ ClosingRow(i)
    /\ \A j \in 1..(i - 1) :
           ClosingRow(j) => trades[j].entry_order_id # trades[i].entry_order_id

RoundTrips == {i \in Indices(trades) : FirstClosingRow(i)}

RECURSIVE RoundTripPnl(_)
RoundTripPnl(i) ==
    IF i = 0 THEN R(0)
    ELSE RAdd(IF FirstClosingRow(i) THEN trades[i].realized_pnl ELSE R(0),
              RoundTripPnl(i - 1))

\* run_backtest has returned and no later call has started
BacktestReturned == pc = "backtest" /\ backtest.result.present

\* C29: every run_backtest that returns has written exactly one BacktestRun
\* row, and its statistics count each round trip (entry filled, exit filled)
\* once: total_trades is the number of round trips, win_rate the share of
\* them with a positive realized P&L (0 when there are none), final_equity the
\* starting equity plus their realized P&L.
C29_RunStatistics ==
    /\ backtest.backtest_runs =
          IF backtest.calls = 0 \/ backtest.result.present
          THEN backtest.calls ELSE backtest.calls - 1
    /\ BacktestReturned =>
          LET n == Cardinality(RoundTrips)
              wins == Cardinality({i \in RoundTrips :
                                     RLt(R(0), trades[i].realized_pnl)})
          IN  /\ backtest.result.total_trades = n
              /\ backtest.result.win_rate =
                     IF n = 0 THEN R(0) ELSE Rat(wins, n)
              /\ backtest.result.final_equity =
                     RAdd(MetaGet(portfolio.starting_equity),
                          RoundTripPnl(Len(trades)))

\* the first runner of the pair has returned
PairReturned ==
    /\ pc = "backtest"
    /\ backtest.calls = 2
    /\ backtest.result.present

\* the other runner has acted while the first was suspended
OtherRunnerActed == backtest.other.bar_no > 0

\* C30: whatever the interleaving with a runner on another portfolio, a
\* runner leaves the signals, orders and trades it leaves when it runs alone
\* on the same candles; its debounce state is its own.
C30_RunnersIsolated ==
    PairReturned =>
        /\ backtest.result.signals = backtest.previous.signals
        /\ backtest.result.orders = backtest.previous.orders
        /\ backtest.result.trades = backtest.previous.trades

C30_Witness ==
    /\ PairReturned
    /\ OtherRunnerActed
    /\ backtest.other.pc # "done"
    /\ backtest.result.orders # <<>>
    /\ backtest.other.orders # <<>>
    /\ backtest.other.last_signal_type # last_signal_type

\* every committed Trades row has its entry order committed as FILLED, and
\* every committed closing row has an exit order that is no longer submitted
NoHalfWrittenTrade ==
    \A i \in Indices(trades) :
        /\ orders[trades[i].entry_order_id].status = "FILLED"
        /\ trades[i].exit_order_id # 0 =>
               orders[trades[i].exit_order_id].status # "submitted"

\* a finalisation that raises leaves the rows of earlier candles as they were
EarlierRowsKept ==
    pc = "poll" /\ pc' = "raised" =>
        /\ \A i \in Indices(orders) :
               orders[i].opened_at < bar_no => orders'[i] = orders[i]
        /\ \A i \in Indices(trades) :
               trades[i].opened_at < bar_no => trades'[i] = trades[i]

\* C31: when a write of the finalisation in handle_enter or handle_exit
\* fails, the error propagates and the committed rows are not half-written:
\* no Trades row without its entry order FILLED, no closing Trades row whose
\* exit order is still submitted, and the rows of earlier candles unchanged.
C31_NoHalfWrittenState == []NoHalfWrittenTrade /\ [][EarlierRowsKept]_vars

\* position sizes of the runner's filled entries, in order
EntrySizes ==
    LET filled == SelectSeq(orders, LAMBDA o : o.side = "buy" /\ o.status = "FILLED")
    IN  [i \in 1..Len(filled) |-> filled[i].size]

\* position sizes of the fast engine's entries, in order
FastEntrySizes ==
    [i \in 1..Len(fast.trades) |-> fast.trades[i].size]
        \o (IF fast.open_trade = NoFastTrade THEN <<>>
            ELSE <<fast.open_trade.size>>)

\* both engines have entered and exited on the same candles so far
SameTradesSoFar ==
    /\ BothBetweenCandles
    /\ FilledBars("buy") = FastEntryBars
    /\ FilledBars("sell") = FastExitBars

\* C32: when the runner and the fast engine have made the same entries and
\* exits on the same candles, they have sized every one of those entries
\* alike, the later ones as well as the first.
C32_SameSizing == SameTradesSoFar => EntrySizes = FastEntrySizes

\* a value appended to a full buffer pushes out the oldest one
OldestEvicted ==
    LET b == fast.strategy.closes IN
    fast.strategy.kind # "None" /\ Len(b) = fast.strategy.maxlen /\ Len(b) > 0 =>
        /\ Len(fast'.strategy.closes) = Len(b)
        /\ \E k \in 1..2 :
               SubSeq(fast'.strategy.closes, 1, Len(b) - k) =
                   SubSeq(b, k + 1, Len(b))

\* C33: a strategy's rolling buffer never holds more values than its
\* capacity, a value arriving at capacity evicts the oldest, and whatever
\* parameters the constructor accepted the capacity is at least the lookback
\* period.
C33_BoundedBuffers ==
    /\ [](fast.strategy.kind # "None" =>
             /\ Len(fast.strategy.closes) <= fast.strategy.maxlen
             /\ fast.strategy.maxlen >= fast.strategy.lookback)
    /\ [][OldestEvicted]_vars

\* the strategy answers ENTER and the last signal that passed was no ENTER
EnterPassesDebounce ==
    pc = "strategy" /\ bar_log'.sig = "enter" /\ last_signal_type # "enter"

\* the strategy answers ENTER and the last signal that passed was an ENTER
EnterRepeated ==
    pc = "strategy" /\ bar_log'.sig = "enter" /\ last_signal_type = "enter"

\* the ENTER of the candle just finished reached the risk gate and no order
\* came of it: it was vetoed, blocked for slippage or sized to nothing
EnterWithoutOrder ==
    /\ pc = "next_bar"
    /\ bar_log.sig = "enter"
    /\ bar_log.risk_evaluated
    /\ Len(orders) = bar_log.orders_before_signal

\* C34: an ENTER that passes the debounce becomes last_signal_type before
\* the risk gate and the OrderManager run, whether or not an order is
\* placed; an ENTER that follows it is dropped without a Signals row, a risk
\* evaluation or an order, and leaves last_signal_type as it is.
C34_DebounceBeforeRisk ==
    /\ [](EnterWithoutOrder => last_signal_type = "enter")
    /\ [][/\ EnterPassesDebounce => last_signal_type' = "enter"
          /\ EnterRepeated =>
                /\ pc' = "next_bar"
                /\ ~bar_log'.risk_evaluated
                /\ ~bar_log'.enter_called
                /\ orders' = orders
                /\ signal_rows' = signal_rows
                /\ risk_events' = risk_events
                /\ last_signal_type' = "enter"]_vars

\* the ENTER of candle 1 was vetoed and the ENTER of candle 2 was dropped
C34_Witness ==
    /\ pc = "next_bar"
    /\ bar_no = 2
    /\ last_snapshot = LossSnapshot
    /\ bar_log.prev_sig = "enter"
    /\ bar_log.sig = "enter"
    /\ ~bar_log.risk_evaluated
    /\ Len(signal_rows) = 1
    /\ orders = <<>>
    /\ last_signal_type = "enter"

\* handle_enter / handle_exit are not in their poll loop and have not raised
BetweenOrders == pc \notin {"poll", "raised"}

\* C35: once handle_enter or handle_exit has returned, the Orders row it
\* added has a terminal status: outside the poll loop no row is submitted,
\* and no row of the OrderManager is ever among the snapshot's open_orders.
C35_OrdersTerminal ==
    /\ BetweenOrders =>
          \A i \in Indices(orders) : orders[i].status \in TerminalStatuses
    /\ OpenOrders(orders) = <<>>

\* a filled and an unfilled order are on record between two candles
C35_Witness ==
    /\ pc = "next_bar"
    /\ \E i, j \in Indices(orders) :
           /\ orders[i].status = "FILLED"
           /\ orders[j].status \in TerminalStatuses \ {"FILLED"}

\* the Trades row a sell order was submitted for
ExitedTrade(order) == trades[TradeIndex(order.trade_id)]

\* C36: every exit order of the OrderManager, placed by handle_exit on a
\* strategy EXIT or by check_auto_exits, sells a trade of the manager's own
\* asset and strategy-config, whatever other open trades the portfolio holds.
C36_ExitsOwnTrade ==
    \A i \in Indices(orders) :
        orders[i].side = "sell" =>
            /\ ExitedTrade(orders[i]).asset_id = 1
            /\ ExitedTrade(orders[i]).strategy_config_id = 1

\* signal prices and slippage limits for the computation on its own
SlipPrices == {R(97), R(100), R(106), Rat(1, 3)}
SlipLimits == {R(0), Rat(1, 2), R(1), R(5)}

\* C37: with the simulated backend the preview carries no price, the
\* signal price stands in for it, the slippage delta is 0 and within every
\* limit >= 0, and so every call of handle_enter with a positive size, every
\* strategy EXIT with an open trade and every automatic exit submits its
\* order.
C37_SimNeverBlocked ==
    /\ \A p \in SlipPrices, m \in SlipLimits :
           /\ compute_slippage_and_limit(p, p, m).change_pct = R(0)
           /\ compute_slippage_and_limit(p, p, m).ok
    /\ engine.kind = "paper" =>
          /\ IsNone(bar_log.enter_preview)
          /\ bar_log.enter_called /\ RLt(R(0), bar_log.risk_size) =>
                 Len(orders) > bar_log.orders_before_signal
          /\ bar_log.exit_called /\ portfolio_state.open_trades # <<>> =>
                 Len(orders) > bar_log.orders_before_signal
          /\ bar_log.auto_exit # "None" => Len(orders) > bar_log.orders_at_start

\* on one candle an automatic exit and an entry have both been submitted
C37_Witness ==
    /\ engine.kind = "paper"
    /\ pc = "next_bar"
    /\ bar_log.auto_exit # "None"
    /\ bar_log.enter_called
    /\ Len(orders) = bar_log.orders_at_start + 2

\* C38: a should_enter / should_exit strategy holds one close per candle it
\* has been given through generate_signal, up to the capacity of its buffer,
\* whatever signals the candles produced.
C38_OneClosePerBar ==
    fast.strategy.kind = "mean_reversion" =>
        Len(fast.strategy.closes) =
            IF fast.bar < fast.strategy.maxlen THEN fast.bar
            ELSE fast.strategy.maxlen

\* ------------------------------------------------------------------------
\* MovingAverageCrossoverStrategy, an on_bar strategy
\* ------------------------------------------------------------------------
MaxCrossBars == 5
RiskPcts == {0, 5}

\* ema(prev, price, period) of moving_average_crossover.py
ema(prev, price, period) ==
    LET k == Rat(2, period + 1)
    IN  IF IsNone(prev) THEN price
        ELSE RAdd(RMul(price, k), RMul(prev, RSub(R(1), k)))

\* the strategy after __init__; buffer_pct is 0.0 by default
NewCrossover(fast_window, slow_window, stop_loss_pct, take_profit_pct) ==
    [kind |-> "ma_crossover",
     fast_window |-> fast_window, slow_window |-> slow_window,
     stop_loss_pct |-> stop_loss_pct, take_profit_pct |-> take_profit_pct,
     maxlen |-> (IF fast_window > slow_window THEN fast_window
                 ELSE slow_window) * 4,
     closes |-> <<>>,
     fast_ema |-> NoneR, slow_ema |-> NoneR,
     prev_fast_ema |-> NoneR, prev_slow_ema |-> NoneR,
     in_position |-> FALSE, entry_price |-> NoneR,
     last_signal |-> "None", emitted |-> <<>>]

\* a reset that forgets the position flag
ResetKeepsPosition(strategy) ==
    [strategy EXCEPT
        !.closes = <<>>,
        !.fast_ema = NoneR, !.slow_ema = NoneR,
        !.prev_fast_ema = NoneR, !.prev_slow_ema = NoneR,
        !.entry_price = NoneR]

\* MovingAverageCrossoverStrategy.reset
reset(strategy) ==
    [strategy EXCEPT
        !.closes = <<>>,
        !.fast_ema = NoneR, !.slow_ema = NoneR,
        !.prev_fast_ema = NoneR, !.prev_slow_ema = NoneR,
        !.in_position = FALSE, !.entry_price = NoneR]

\* _update_indicators(price)
CrossoverUpdate(strategy, price) ==
    [strategy EXCEPT
        !.closes = DequeAppend(@, price.n, strategy.maxlen),
        !.prev_fast_ema = strategy.fast_ema,
        !.prev_slow_ema = strategy.slow_ema,
        !.fast_ema = ema(strategy.fast_ema, price, strategy.fast_window),
        !.slow_ema = ema(strategy.slow_ema, price, strategy.slow_window)]

CrossoverHasEnoughData(strategy) ==
    /\ ~IsNone(strategy.fast_ema)
    /\ ~IsNone(strategy.slow_ema)
    /\ ~IsNone(strategy.prev_fast_ema)
    /\ ~IsNone(strategy.prev_slow_ema)

\* _bullish_crossover, buffer_pct = 0
BullishCrossover(strategy) ==
    /\ CrossoverHasEnoughData(strategy)
    /\ RLe(strategy.prev_fast_ema, strategy.prev_slow_ema)
    /\ RLt(strategy.slow_ema, strategy.fast_ema)

\* _bearish_crossover, buffer_pct = 0
BearishCrossover(strategy) ==
    /\ CrossoverHasEnoughData(strategy)
    /\ RLe(strategy.prev_slow_ema, strategy.prev_fast_ema)
    /\ RLt(strategy.fast_ema, strategy.slow_ema)

\* the stop-loss and take-profit branches of on_bar
CrossoverRiskExit(strategy, price) ==
    /\ strategy.in_position
    /\ ~IsNone(strategy.entry_price)
    /\ \/ /\ strategy.stop_loss_pct > 0
          /\ RLe(price, RMul(strategy.entry_price,
                             RSub(R(1), Rat(strategy.stop_loss_pct, 100))))
       \/ /\ strategy.take_profit_pct > 0
          /\ RLe(RMul(strategy.entry_price,
                      RAdd(R(1), Rat(strategy.take_profit_pct, 100))), price)

\* the strategy after on_bar(candle); a returned None is recorded as "None"
CrossoverAfterBar(strategy, price) ==
    LET u == CrossoverUpdate(strategy, price)
    IN  IF ~CrossoverHasEnoughData(u)
        THEN [u EXCEPT !.last_signal = "None"]
        ELSE IF CrossoverRiskExit(u, price)
        THEN [u EXCEPT !.in_position = FALSE, !.last_signal = "EXIT",
                       !.emitted = Append(@, "EXIT")]
        ELSE IF ~u.in_position /\ BullishCrossover(u)
        THEN [u EXCEPT !.in_position = TRUE, !.entry_price = price,
                       !.last_signal = "ENTER",
                       !.emitted = Append(@, "ENTER")]
        ELSE IF u.in_position /\ BearishCrossover(u)
        THEN [u EXCEPT !.in_position = FALSE, !.last_signal = "EXIT",
                       !.emitted = Append(@, "EXIT")]
        ELSE [u EXCEPT !.last_signal = "HOLD"]

CrossoverInit ==
    /\ IdleRunnerState
    /\ engine = NewEngine("paper")
    /\ poll_log = <<>>
    /\ risk_in = NoRiskIn
    /\ risk_out = NoRiskOut
    /\ backtest = NoBacktest
    /\ \E fast_window \in 1..2, slow_window \in 2..3,
          stop_loss_pct \in RiskPcts, take_profit_pct \in RiskPcts :
          fast = [NoFast EXCEPT
                     !.strategy = NewCrossover(fast_window, slow_window,
                                               stop_loss_pct, take_profit_pct)]

\* on_bar(candle)
CrossoverOnBar ==
    /\ fast.strategy.kind = "ma_crossover"
    /\ fast.bar < MaxCrossBars
    /\ \E c \in ClosePrices :
          fast' = [fast EXCEPT
                      !.bar = @ + 1,
                      !.strategy = CrossoverAfterBar(@, R(c))]
    /\ UNCHANGED backtest
    /\ UNCHANGED <<pc, bar_no, candle, params, engine, portfolio, last_snapshot,
                   orders, trades, signal_rows, risk_events, portfolio_state,
                   last_signal_type, signals, frame, poll_tick, bar_log,
                   risk_in, risk_out, poll_log>>

\* reset() on a strategy that has seen candles; the call is logged
CrossoverReset ==
    /\ fast.strategy.kind = "ma_crossover"
    /\ fast.strategy.closes # <<>>
    /\ fast' = [fast EXCEPT
                   !.strategy = [reset(@) EXCEPT
                                    !.last_signal = "RESET",
                                    !.emitted = Append(@, "RESET")]]
    /\ UNCHANGED backtest
    /\ UNCHANGED <<pc, bar_no, candle, params, engine, portfolio, last_snapshot,
                   orders, trades, signal_rows, risk_events, portfolio_state,
                   last_signal_type, signals, frame, poll_tick, bar_log,
                   risk_in, risk_out, poll_log>>

CrossoverNext == CrossoverOnBar \/ CrossoverReset

CrossoverSpec == CrossoverInit /\ [][CrossoverNext]_vars

RECURSIVE FastPnlSum(_)
FastPnlSum(ts) ==
    IF ts = <<>> THEN R(0) ELSE RAdd(ts[1].pnl, FastPnlSum(Tail(ts)))

\* (peak_equity - equity) / peak_equity if peak_equity > 0 else 0
max_drawdown(f) ==
    IF RLt(R(0), f.peak_equity)
    THEN RDiv(RSub(f.peak_equity, f.equity), f.peak_equity)
    ELSE R(0)

\* no trade begins before the one before it has ended
OnePositionAtATime ==
    /\ \A i \in 1..Len(fast.trades) :
          /\ fast.trades[i].entry_time < fast.trades[i].exit_time
          /\ i > 1 => fast.trades[i - 1].exit_time <= fast.trades[i].entry_time
    /\ fast.open_trade # NoFastTrade /\ fast.trades # <<>> =>
          Last(fast.trades).exit_time <= fast.open_trade.entry_time

====
